---- MODULE Spec2Model ----
(***************************************************************************)
(* Brick topology of BrickFEM (src/src/brickfem.py): make_brick_lists,     *)
(* make_parts, check_two_parts and make_widen_cont, with the part of       *)
(* make_assembly that writes the 'instance' field check_two_parts reads.   *)
(*                                                                         *)
(* Lengths are integers in units of 0.001 mm, so that TOL = 1e-3 mm is 1   *)
(* and the default lego_geom is b = 8000, h = 9600, h_stud = 1700,         *)
(* h_top = 1500, h/3. = 3200.  Comparisons are those of exact arithmetic.  *)
(*                                                                         *)
(* The mesh side of the clamping model is modelled too: make_middle_pos,   *)
(* make_u_nodes with its get_overlap_nodes, the part of make_abq_brick     *)
(* that returns move_nodes, and the steps and boundary conditions that     *)
(* make_model_ini creates.  brick_dict holds, for each brick of            *)
(* assembly['bricks'], the nodes of the set 'cont-bot-touch' of its        *)
(* meshed part (an input: the mesh is made by Abaqus), the node sets       *)
(* make_u_nodes creates on the part and the 'move_nodes' make_assembly     *)
(* stores; model holds the steps and boundary conditions of the Abaqus     *)
(* model; frame holds the arguments, the locals and the result of the      *)
(* function in progress (its field caller is the frame of the function     *)
(* that called it); os holds the working directory of the process and the  *)
(* directories and files on disk.                                          *)
(*                                                                         *)
(* A Python dict is a function together with the order in which its keys   *)
(* are iterated; the variable order holds that order for assembly['parts'].*)
(* A key a dict does not hold is the empty tuple <<>>.                     *)
(***************************************************************************)
EXTENDS Integers, Sequences, FiniteSets, TLC

VARIABLES parts, order, err, calls, dict_widen, cont_list, prev, rel,
          brick_dict, model, frame, os

vars == <<parts, order, err, calls, dict_widen, cont_list, prev, rel,
          brick_dict, model, frame, os>>

----------------------------------------------------------------------------
(* Program constants (lego_geom and TOL), in units of 0.001 mm.            *)

TOL == 1
b == 8000
h == 9600
h_stud == 1700
h_top == 1500

b_gap == 100
b_wall == 1600
delta_r == 50

(* assembly['mesh_size'] of the model cases.                               *)
mesh_size == 750

(* Bounds of the model.                                                    *)
MaxParts == 3
MaxCalls == 2
MaxOff == 1
MaxStuds == 4
MaxNodes == 2
MaxFiles == 2
MaxRow == 5
MaxFoot == 11
MaxId == 4
MaxRuns == 2

----------------------------------------------------------------------------
(* Helpers for Python values.                                              *)

Range(s) == {s[i] : i \in DOMAIN s}

(* int(a / d) for a float quotient: truncation towards zero.               *)
int_div(a, d) == IF a >= 0 THEN a \div d ELSE -((-a) \div d)

(* [f(x) for x in s if keep(x)] is written with SelectSeq and a map.       *)
RECURSIVE flat_cavity(_)
flat_cavity(lists_0) ==
    IF lists_0 = <<>> THEN <<>>
    ELSE Head(lists_0) \o flat_cavity(Tail(lists_0))

----------------------------------------------------------------------------
(* assembly['bricks']: the catalog the placements refer to.                *)

bricks ==
    1 :> [type |-> "regular", nx |-> 2, nz |-> 1] @@
    2 :> [type |-> "regular", nx |-> 1, nz |-> 1] @@
    3 :> [type |-> "plate", nx |-> 1, nz |-> 2] @@
    4 :> [type |-> "base-plate", nx |-> 2, nz |-> 2]

(* Entries a caller may write into assembly['bricks'] by mistake: a type   *)
(* that is none of regular, plate, tile and base-plate, and footprints     *)
(* without studs.                                                          *)
bad_bricks ==
    5 :> [type |-> "brick", nx |-> 1, nz |-> 1] @@
    6 :> [type |-> "regular", nx |-> 0, nz |-> 2] @@
    7 :> [type |-> "plate", nx |-> 2, nz |-> -1]

catalog == bricks @@ bad_bricks

(* One entry of assembly['parts'] as the caller writes it.                 *)
new_part(brick_id, loc) ==
    [brick_id |-> brick_id, loc |-> loc,
     instance |-> <<>>, stud_list |-> <<>>, y_range |-> <<>>]

(* A variant that counts the studs from 0: range(nx) for range(1, nx+1).   *)
make_brick_lists_zero(brick) ==
    LET nx == brick.nx
        nz == brick.nz
        brick_list == [k \in 1..(nx * nz) |->
                          <<(k - 1) \div nz, (k - 1) % nz>>]
        y_range == IF brick.type = "regular" THEN <<0, h>>
                   ELSE IF brick.type = "base-plate" THEN <<-h_top, 0>>
                   ELSE <<0, h \div 3>>
    IN  <<brick_list, y_range>>

(* make_brick_lists: the studs (ix, iz), ix outer and iz inner, and the    *)
(* y range of the body without studs.                                      *)
make_brick_lists(brick) ==
    LET nx == brick.nx
        nz == brick.nz
        brick_list == [k \in 1..(nx * nz) |->
                          <<((k - 1) \div nz) + 1, ((k - 1) % nz) + 1>>]
        y_range == IF brick.type = "regular" THEN <<0, h>>
                   ELSE IF brick.type = "base-plate" THEN <<-h_top, 0>>
                   ELSE <<0, h \div 3>>
    IN  <<brick_list, y_range>>

(* A variant that adds the offset to a stud list the part already holds.   *)
make_part_acc(part) ==
    LET lists == make_brick_lists(catalog[part.brick_id])
        old == IF part.stud_list # <<>> THEN part.stud_list ELSE lists[1]
        loc == part.loc
        dx == int_div(loc[1], b)
        dz == int_div(loc[3], b)
    IN  [part EXCEPT
           !.stud_list = [k \in DOMAIN old |->
                             <<old[k][1] + dx, old[k][2] + dz>>],
           !.y_range = <<lists[2][1] + loc[2], lists[2][2] + loc[2]>>]

(* A variant that also replaces loc by its position on the stud grid.      *)
make_part_grid(part) ==
    LET lists == make_brick_lists(catalog[part.brick_id])
        loc == part.loc
        dx == int_div(loc[1], b)
        dz == int_div(loc[3], b)
    IN  [part EXCEPT
           !.loc = <<dx, loc[2], dz>>,
           !.stud_list = [k \in DOMAIN lists[1] |->
                             <<lists[1][k][1] + dx, lists[1][k][2] + dz>>],
           !.y_range = <<lists[2][1] + loc[2], lists[2][2] + loc[2]>>]

(* The body of the loop of make_parts for one part.                        *)
make_part(part) ==
    LET lists == make_brick_lists(catalog[part.brick_id])
        loc == part.loc
        dx == int_div(loc[1], b)
        dz == int_div(loc[3], b)
    IN  [part EXCEPT
           !.stud_list = [k \in DOMAIN lists[1] |->
                             <<lists[1][k][1] + dx, lists[1][k][2] + dz>>],
           !.y_range = <<lists[2][1] + loc[2], lists[2][2] + loc[2]>>]

make_parts(ps) == [i \in DOMAIN ps |-> make_part(ps[i])]

(* The error the loop body raises for one part ("" for none): a KeyError   *)
(* of bricks[i_brick] for a brick_id the catalog does not hold, and a      *)
(* ValueError of brick_list += (.., ..) when brick_list is empty, as an    *)
(* array of shape (0,) and a pair cannot be broadcast together.            *)
part_error(part) ==
    IF part.brick_id \notin DOMAIN catalog THEN "KeyError"
    ELSE IF catalog[part.brick_id].nx < 1 \/ catalog[part.brick_id].nz < 1
    THEN "ValueError"
    ELSE ""

(* The place in the iteration order of the first part whose loop body      *)
(* raises, 0 if none does.                                                 *)
first_error(ps, ord) ==
    LET bad == {n \in DOMAIN ord : part_error(ps[ord[n]]) # ""}
    IN  IF bad = {} THEN 0 ELSE CHOOSE n \in bad : \A m \in bad : n <= m

(* The mapping when the loop stops at place n: the parts before it hold    *)
(* their stud_list and y_range.                                            *)
make_parts_until(ps, ord, n) ==
    [i \in DOMAIN ps |->
        IF \E m \in 1..(n - 1) : ord[m] = i THEN make_part(ps[i]) ELSE ps[i]]

----------------------------------------------------------------------------
(* check_two_parts                                                         *)

(* The if/elif chain on the y ranges.                                      *)
y_rel_of(y_range1, y_range2) ==
    IF y_range1[2] + h_stud > y_range2[1] /\ y_range1[2] <= y_range2[1] + TOL
    THEN "top"
    ELSE IF y_range2[2] + h_stud > y_range1[1]
            /\ y_range2[2] <= y_range1[1] + TOL
    THEN "bot"
    ELSE IF \/ (y_range2[2] > y_range1[1] + TOL
                /\ y_range2[2] < y_range1[2] + TOL)
            \/ (y_range2[1] < y_range1[2] + TOL
                /\ y_range2[1] > y_range1[1] - TOL)
    THEN "side"
    ELSE "none"

(* for s1 in s_list1: for s2 in s_list2: the pairs in loop order.          *)
stud_pairs(s_list1, s_list2) ==
    LET n2 == Len(s_list2)
    IN  [k \in 1..(Len(s_list1) * n2) |->
            <<s_list1[((k - 1) \div n2) + 1], s_list2[((k - 1) % n2) + 1]>>]

(* A variant that subtracts the origin of part2.                           *)
widen_loop_loc2(part1, part2) ==
    LET same(p) == p[1] = p[2]
        hits == SelectSeq(stud_pairs(part1.stud_list, part2.stud_list), same)
        dx == int_div(part2.loc[1], b)
        dz == int_div(part2.loc[3], b)
    IN  [k \in DOMAIN hits |-> <<hits[k][1][1] - dx, hits[k][1][2] - dz>>]

(* The widen loop: one entry s1 - (int(loc[0]/b), int(loc[2]/b)) per pair  *)
(* of equal studs, loc being that of part1.                                *)
widen_loop(part1, part2) ==
    LET same(p) == p[1] = p[2]
        hits == SelectSeq(stud_pairs(part1.stud_list, part2.stud_list), same)
        dx == int_div(part1.loc[1], b)
        dz == int_div(part1.loc[3], b)
    IN  [k \in DOMAIN hits |-> <<hits[k][1][1] - dx, hits[k][1][2] - dz>>]

(* A variant that also pairs the studs with s2 - s1 = (-1, 0) or (0, -1).  *)
side_loop_abs(part1, part2) ==
    LET isx(p) == p[2][1] - p[1][1] \in {1, -1} /\ p[2][2] - p[1][2] = 0
        isz(p) == p[2][2] - p[1][2] \in {1, -1} /\ p[2][1] - p[1][1] = 0
        hit(p) == isx(p) \/ isz(p)
        hits == SelectSeq(stud_pairs(part1.stud_list, part2.stud_list), hit)
    IN  [k \in DOMAIN hits |->
            IF isx(hits[k]) THEN <<"x1", "x0">> ELSE <<"z1", "z0">>]

(* The side loop: a label pair per pair of studs with s2 - s1 = (1, 0) or  *)
(* s2 - s1 = (0, 1).                                                       *)
side_loop(part1, part2) ==
    LET isx(p) == p[2][1] - p[1][1] = 1 /\ p[2][2] - p[1][2] = 0
        isz(p) == p[2][2] - p[1][2] = 1 /\ p[2][1] - p[1][1] = 0
        hit(p) == isx(p) \/ isz(p)
        hits == SelectSeq(stud_pairs(part1.stud_list, part2.stud_list), hit)
    IN  [k \in DOMAIN hits |->
            IF isx(hits[k]) THEN <<"x1", "x0">> ELSE <<"z1", "z0">>]

(* A variant without the first return for a part checked against itself.   *)
check_two_parts_noself(part1, part2) ==
    LET y_rel == y_rel_of(part1.y_range, part2.y_range)
        widen_list == IF y_rel = "bot" THEN widen_loop(part1, part2)
                      ELSE <<>>
        side_list == IF y_rel = "side" THEN side_loop(part1, part2)
                     ELSE <<>>
        if_stud_contact == IF widen_list # <<>> THEN 1 ELSE 0
    IN  <<y_rel, widen_list, side_list, if_stud_contact>>

(* The returned tuple: (y_rel, widen_list, side_list, if_stud_contact), or *)
(* the three-element tuple of the first return.                            *)
check_two_parts(part1, part2) ==
    IF part1.instance[1] = part2.instance[1]
    THEN <<"none", <<>>, <<>> >>
    ELSE LET y_rel == y_rel_of(part1.y_range, part2.y_range)
             widen_list == IF y_rel = "bot" THEN widen_loop(part1, part2)
                           ELSE <<>>
             side_list == IF y_rel = "side" THEN side_loop(part1, part2)
                          ELSE <<>>
             if_stud_contact == IF widen_list # <<>> THEN 1 ELSE 0
         IN  <<y_rel, widen_list, side_list, if_stud_contact>>

----------------------------------------------------------------------------
(* make_widen_cont                                                         *)

(* The keys of dic_temp in iteration order: those of parts without k_part. *)
dic_keys(ord, k_part) ==
    LET other(j) == j # k_part
    IN  SelectSeq(ord, other)

(* dic_temp as the list of its items (i_part, check_two_parts(...)).        *)
dic_temp(ps, ord, k_part) ==
    LET keys == dic_keys(ord, k_part)
        any(x) == TRUE
    IN  SelectSeq([n \in DOMAIN keys |->
                      <<keys[n], check_two_parts(ps[k_part], ps[keys[n]])>>], any)

(* dict_widen[k_part]: the non-empty widen lists of dic_temp, flattened.   *)
widen_of(items) ==
    LET full(it) == it[2][2] # <<>>
        widen_list == SelectSeq(items, full)
    IN  flat_cavity([n \in DOMAIN widen_list |-> widen_list[n][2][2]])

(* A variant that emits every label pair of a side list, not the first.    *)
side_entries_all(k_part, items) ==
    LET has_side(it) == it[2][3] # <<>>
        sel == SelectSeq(items, has_side)
    IN  flat_cavity([n \in DOMAIN sel |->
                        [m \in DOMAIN sel[n][2][3] |->
                            <<k_part, sel[n][1], sel[n][2][3][m]>>]])

(* [[k_part, i_part, j[2][0]] for i_part, j in dic_temp.items()            *)
(*  if j[2] != []]                                                         *)
side_entries(k_part, items) ==
    LET has_side(it) == it[2][3] # <<>>
        sel == SelectSeq(items, has_side)
    IN  [n \in DOMAIN sel |-> <<k_part, sel[n][1], sel[n][2][3][1]>>]

(* A variant that names the two parts of a stud contact in the other order.*)
stud_entries_swapped(k_part, items) ==
    LET has_stud(it) == it[2][Len(it[2])] = 1
        sel == SelectSeq(items, has_stud)
    IN  [n \in DOMAIN sel |-> <<sel[n][1], k_part, <<"bot", "top">> >>]

(* [[k_part, i_part, ['bot','top']] for i_part, j in dic_temp.items()      *)
(*  if j[-1] == 1]                                                         *)
stud_entries(k_part, items) ==
    LET has_stud(it) == it[2][Len(it[2])] = 1
        sel == SelectSeq(items, has_stud)
    IN  [n \in DOMAIN sel |-> <<k_part, sel[n][1], <<"bot", "top">> >>]

(* A variant of the loop that appends the stud entries of each k_part      *)
(* before its side entries.                                                *)
RECURSIVE cont_loop_stud_first(_, _, _)
cont_loop_stud_first(ps, ord, todo) ==
    IF todo = <<>> THEN <<>>
    ELSE LET items == dic_temp(ps, ord, Head(todo))
         IN  stud_entries(Head(todo), items) \o side_entries(Head(todo), items)
             \o cont_loop_stud_first(ps, ord, Tail(todo))

(* The loop over parts.keys(): cont_list grows by the side entries and     *)
(* then the stud entries of each k_part.                                   *)
RECURSIVE cont_loop(_, _, _)
cont_loop(ps, ord, todo) ==
    IF todo = <<>> THEN <<>>
    ELSE LET items == dic_temp(ps, ord, Head(todo))
         IN  side_entries(Head(todo), items) \o stud_entries(Head(todo), items)
             \o cont_loop(ps, ord, Tail(todo))

(* make_widen_cont on a parts mapping whose parts all hold 'instance':     *)
(* the annotated mapping and the returned (dict_widen, cont_list).         *)
make_widen_cont(ps, ord) ==
    LET placed == make_parts(ps)
    IN  [parts |-> placed,
         dict_widen |-> [k_part \in DOMAIN ps |->
                           widen_of(dic_temp(placed, ord, k_part))],
         cont_list |-> cont_loop(placed, ord, ord)]

----------------------------------------------------------------------------
(* make_assembly: the instances of one part.  A brick made as one Abaqus   *)
(* part (tiles, and every brick but the base-plate in a tetrahedral mesh)  *)
(* gets (inst, inst); a base-plate gets (i_top, i_top); any other brick    *)
(* gets (i_bot, i_top).  An instance is named by the part id and TOP/BOT.  *)

instance_of(i_inst, b_type, is_tet) ==
    IF b_type = "tile" \/ (b_type # "base-plate" /\ is_tet = 1)
    THEN << <<i_inst, "TOP">>, <<i_inst, "TOP">> >>
    ELSE IF b_type # "base-plate"
    THEN << <<i_inst, "BOT">>, <<i_inst, "TOP">> >>
    ELSE << <<i_inst, "TOP">>, <<i_inst, "TOP">> >>

has_instance(ps) == \A i \in DOMAIN ps : ps[i].instance # <<>>
has_stud_list(ps) == \A i \in DOMAIN ps : ps[i].stud_list # <<>>

----------------------------------------------------------------------------
(* make_middle_pos                                                         *)

(* Python's None, and a numpy array, as values that can be told apart.     *)
None == <<"None">>
array(a) == <<"array", a>>

(* A variant that adds the whole gap delta to arr[:-1].                    *)
mid_arr_gap(arr) ==
    LET delta == arr[2] - arr[1]
    IN  [k \in 1..(Len(arr) - 1) |-> arr[k] + delta]

(* arr[:-1] + delta / 2. with delta = arr[1] - arr[0].                     *)
mid_arr(arr) ==
    LET delta == arr[2] - arr[1]
    IN  [k \in 1..(Len(arr) - 1) |-> arr[k] + delta \div 2]

(* make_middle_pos(x_arr, z_arr): (x_mid_arr, z_mid_arr).                  *)
make_middle_pos(x_arr, z_arr) ==
    IF Len(x_arr) = 1
    THEN IF Len(z_arr) = 1
         THEN <<None, None>>
         ELSE <<None, array(mid_arr(z_arr))>>
    ELSE IF Len(z_arr) = 1
         THEN <<array(mid_arr(x_arr)), None>>
         ELSE <<array(mid_arr(x_arr)), array(mid_arr(z_arr))>>

----------------------------------------------------------------------------
(* make_u_nodes                                                            *)

(* r_stud = b/2. - b_gap - b_wall + delta_r of make_abq_brick.             *)
r_stud == (b \div 2) - b_gap - b_wall + delta_r

(* The square root, rounded down to a whole 0.001 mm: the largest r in     *)
(* lo..hi with r * r <= n.                                                 *)
RECURSIVE sqrt_between(_, _, _)
sqrt_between(n, lo, hi) ==
    IF lo >= hi THEN lo
    ELSE LET mid == (lo + hi + 1) \div 2
         IN  IF mid * mid <= n THEN sqrt_between(n, mid, hi)
             ELSE sqrt_between(n, lo, mid - 1)

sqrt_floor(n) == sqrt_between(n, 0, IF n < 46340 THEN n ELSE 46340)

(* c_radius of one row [n_i, x_i, y_i, z_i] of c_arr for the stud centre   *)
(* (x0, z0): the centre is subtracted from the second and third column.    *)
c_radius(row, x0, z0) ==
    sqrt_floor((row[2] - x0) * (row[2] - x0) + (row[3] - z0) * (row[3] - z0))

(* A variant that also selects the rows on the cylinder, c_radius = r_stud.*)
cyl_sel_closed(row, x0, z0, r_stud_0, h_stud_0, mesh_size_0) ==
    /\ c_radius(row, x0, z0) <= r_stud_0
    /\ row[4] <= h_stud_0 + mesh_size_0 \div 2

(* cyl_sel of one row.                                                     *)
cyl_sel(row, x0, z0, r_stud_0, h_stud_0, mesh_size_0) ==
    /\ c_radius(row, x0, z0) < r_stud_0
    /\ row[4] <= h_stud_0 + mesh_size_0 \div 2

(* get_overlap_nodes: one record [n, -(c_radius - r_stud), angle] per      *)
(* selected row, in the order of c_arr.  The angle is kept as the pair     *)
(* (z - z0, x - x0) whose arctan2 the code takes.                          *)
get_overlap_nodes(c_arr, x0, z0, r_stud_0, h_stud_0, mesh_size_0) ==
    LET sel(row) == cyl_sel(row, x0, z0, r_stud_0, h_stud_0, mesh_size_0)
        rows == SelectSeq(c_arr, sel)
    IN  [k \in DOMAIN rows |->
            <<rows[k][1],
              -(c_radius(rows[k], x0, z0) - r_stud_0),
              <<rows[k][3] - z0, rows[k][2] - x0>> >>]

(* A variant with the stud centres half a grid step apart.                 *)
stud_centres_half(nx, nz, b_0) ==
    [k \in 1..(nx * nz) |->
        <<(b_0 \div 2) * ((k - 1) % nx), (b_0 \div 2) * ((k - 1) \div nx)>>]

(* for j in range(nz): for i in range(nx): the stud centres (b*i, b*j).    *)
stud_centres(nx, nz, b_0) ==
    [k \in 1..(nx * nz) |-> <<b_0 * ((k - 1) % nx), b_0 * ((k - 1) \div nx)>>]

(* move_nodes += get_overlap_nodes(...) over the stud centres.             *)
RECURSIVE move_loop(_, _, _, _, _)
move_loop(c_arr, centres, r_stud_0, h_stud_0, mesh_size_0) ==
    IF centres = <<>> THEN <<>>
    ELSE get_overlap_nodes(c_arr, Head(centres)[1], Head(centres)[2],
                           r_stud_0, h_stud_0, mesh_size_0)
         \o move_loop(c_arr, Tail(centres), r_stud_0, h_stud_0, mesh_size_0)

(* The name 'x-n' + str(n_label) of a node set.                            *)
set_name(n_label) == <<"x-n", n_label>>

(* make_u_nodes(p, nx, nz, b, r_stud, h_stud, mesh_size) on the nodes of   *)
(* p.sets['cont-bot-touch']: the error it raises ("" for none), the node   *)
(* sets it creates on p in the order of creation, and move_nodes.          *)
(* move_nodes[:, 0] of an array without rows raises an IndexError.         *)
make_u_nodes(nodes, nx, nz, b_0, r_stud_0, h_stud_0, mesh_size_0) ==
    LET move_nodes == move_loop(nodes, stud_centres(nx, nz, b_0),
                                r_stud_0, h_stud_0, mesh_size_0)
    IN  IF move_nodes = <<>>
        THEN [error |-> "IndexError", sets |-> <<>>, move_nodes |-> <<>>]
        ELSE [error |-> "",
              sets |-> [k \in DOMAIN move_nodes |-> set_name(move_nodes[k][1])],
              move_nodes |-> move_nodes]

(* The end of make_abq_brick: make_u_nodes on the part that holds the      *)
(* cavities unless the brick is a base-plate, which gets an empty array.   *)
make_abq_brick(brick, nodes) ==
    IF brick.type # "base-plate"
    THEN make_u_nodes(nodes, brick.nx, brick.nz, b, r_stud, h_stud, mesh_size)
    ELSE [error |-> "", sets |-> <<>>, move_nodes |-> <<>>]

(* make_assembly moves the part by -b*(nz-1) in y and turns it by -90      *)
(* degrees about x, so the stud centre (b*i, b*j) of the part is the       *)
(* cavity position (i + 1, nz - j) of the placed brick.                    *)
cavity_of(c, nz, b_0) == <<c[1] \div b_0 + 1, nz - c[2] \div b_0>>

----------------------------------------------------------------------------
(* make_model_ini: the steps and boundary conditions of the clamping.      *)

(* model.StaticStep(name, previous): the step is inserted after previous.  *)
StaticStep(steps, name, previous) ==
    LET at == CHOOSE k \in DOMAIN steps : steps[k] = previous
    IN  SubSeq(steps, 1, at) \o <<name>> \o SubSeq(steps, at + 1, Len(steps))

(* A boundary condition of the model: its name as (prefix, number, node   *)
(* label or 0), the step that creates it, the region as (instance, set),   *)
(* the displacement as the radial amount dr and the direction ang (0 for a *)
(* fixed region), and the step that deactivates it ("" for none).          *)
bc_of(name, createStepName, region, dr, ang, deactivate) ==
    [name |-> name, createStepName |-> createStepName, region |-> region,
     u |-> [dr |-> dr, ang |-> ang], deactivate |-> deactivate]

(* model.DisplacementBC(name=...): the repository of boundary conditions   *)
(* holds one object per name.                                              *)
DisplacementBC(bcs, bc) ==
    LET other(c) == c.name # bc.name
    IN  SelectSeq(bcs, other) \o <<bc>>

(* The sets of an instance that boundary conditions refer to: 'BOTTOM' on  *)
(* both parts of a brick, 'TOP-FACES' on the top part.                     *)
inst_sets(inst) ==
    IF inst[2] = "TOP" THEN {"all", "BOTTOM", "TOP-FACES"}
    ELSE {"all", "BOTTOM"}

(* for i, fix_par in assembly['bc'].items(): 'fix-brick-NN' in 'Initial'   *)
(* on the set of the bottom instance, or of the top instance if the bottom *)
(* instance does not hold it.                                              *)
RECURSIVE fix_loop(_, _, _, _)
fix_loop(ps, bc, i, bcs) ==
    IF i > Len(bc) THEN bcs
    ELSE LET inst == ps[bc[i].part_id].instance
             region == IF bc[i].set_name \in inst_sets(inst[1])
                       THEN <<inst[1], bc[i].set_name>>
                       ELSE <<inst[2], bc[i].set_name>>
         IN  fix_loop(ps, bc, i + 1,
                      DisplacementBC(bcs, bc_of(<<"fix-brick-", i, 0>>, "Initial",
                                                region, 0, <<0, 0>>, "")))

(* A variant of the widening displacement that stays until 'free'.         *)
u0_bc_free(i_inst, inst_i_bot, rec) ==
    bc_of(<<"u0-inst", i_inst, rec[1]>>, "widen",
          <<inst_i_bot, set_name(rec[1])>>, rec[2], rec[3], "free")

(* The boundary condition 'u0-inst<i>n<label>' of one record of            *)
(* move_nodes: created in 'widen' on the set 'x-n<label>' of the bottom    *)
(* instance, deactivated in 'contact'.                                     *)
u0_bc(i_inst, inst_i_bot, rec) ==
    bc_of(<<"u0-inst", i_inst, rec[1]>>, "widen",
          <<inst_i_bot, set_name(rec[1])>>, rec[2], rec[3], "contact")

(* for n_label_i, dr_i, ang_i in move_nodes.                               *)
RECURSIVE u0_loop(_, _, _, _)
u0_loop(i_inst, inst_i_bot, move_nodes, bcs) ==
    IF move_nodes = <<>> THEN bcs
    ELSE u0_loop(i_inst, inst_i_bot, Tail(move_nodes),
                 DisplacementBC(bcs, u0_bc(i_inst, inst_i_bot, Head(move_nodes))))

(* A variant that widens the cavities of every part.                       *)
widen_part_all(ps, bd, widen_cav, i_inst, bcs) ==
    LET inst == ps[i_inst].instance
        widened == u0_loop(i_inst, inst[1], bd[ps[i_inst].brick_id].move_nodes, bcs)
    IN  DisplacementBC(widened,
                       bc_of(<<"fix-top-i", i_inst, 0>>, "Initial",
                             <<inst[2], "TOP-FACES">>, 0, <<0, 0>>, "free"))

(* The body of the loop over pos_dict.keys(): the widening displacements   *)
(* of the part if its widen list is not empty, then 'fix-top-i<i>' on the  *)
(* top faces, deactivated in 'free'.                                       *)
widen_part(ps, bd, widen_cav, i_inst, bcs) ==
    LET inst == ps[i_inst].instance
        widened == IF Len(widen_cav[i_inst]) > 0
                   THEN u0_loop(i_inst, inst[1],
                                bd[ps[i_inst].brick_id].move_nodes, bcs)
                   ELSE bcs
    IN  DisplacementBC(widened,
                       bc_of(<<"fix-top-i", i_inst, 0>>, "Initial",
                             <<inst[2], "TOP-FACES">>, 0, <<0, 0>>, "free"))

(* for i_inst in pos_dict.keys().                                          *)
RECURSIVE widen_parts(_, _, _, _, _)
widen_parts(ps, bd, widen_cav, keys, bcs) ==
    IF keys = <<>> THEN bcs
    ELSE widen_parts(ps, bd, widen_cav, Tail(keys),
                     widen_part(ps, bd, widen_cav, Head(keys), bcs))

(* The steps 'widen', 'contact' and 'free' of make_model_ini.              *)
clamping_steps(steps) ==
    StaticStep(StaticStep(StaticStep(steps, "widen", "Initial"),
                          "contact", "widen"),
               "free", "contact")

----------------------------------------------------------------------------
(* make_contact: the interactions of the model.                            *)

(* A variant that creates the interaction in the step 'widen'.             *)
make_std_interaction_widen(ints, name, s1, s2) ==
    LET other(c) == c.name # name
    IN  SelectSeq(ints, other) \o
            <<[name |-> name, createStepName |-> "widen",
               master |-> s1, slave |-> s2]>>

(* make_std_interaction(model, name, s1, s2): a surface-to-surface contact *)
(* created in the step 'contact'; the repository holds one interaction    *)
(* per name.  The name is (prefix, i_1, i_2, suffix).                      *)
make_std_interaction(ints, name, s1, s2) ==
    LET other(c) == c.name # name
    IN  SelectSeq(ints, other) \o
            <<[name |-> name, createStepName |-> "contact",
               master |-> s1, slave |-> s2]>>

(* The body of the loop over cont_pairs: 'cont-bt-<i_1>-<i_2>' for a      *)
(* ['bot', 'top'] entry; for a side entry 'cont-side-<i_1>-<i_2>bb' and,   *)
(* for bricks of two parts, the combinations tb, tt and bt.                *)
pair_interactions(ps, entry, ints) ==
    LET i_1 == entry[1]
        i_2 == entry[2]
        str_1 == entry[3][1]
        str_2 == entry[3][2]
        inst_1_bot == ps[i_1].instance[1]
        inst_1_top == ps[i_1].instance[2]
        inst_2_bot == ps[i_2].instance[1]
        inst_2_top == ps[i_2].instance[2]
        bb == make_std_interaction(ints, <<"cont-side-", i_1, i_2, "bb">>,
                                   <<inst_1_bot, str_1>>, <<inst_2_bot, str_2>>)
        tb == IF inst_1_bot # inst_1_top
              THEN make_std_interaction(bb, <<"cont-side-", i_1, i_2, "tb">>,
                                        <<inst_1_top, str_1>>, <<inst_2_bot, str_2>>)
              ELSE bb
        tt == IF inst_1_bot # inst_1_top /\ inst_2_bot # inst_2_top
              THEN make_std_interaction(tb, <<"cont-side-", i_1, i_2, "tt">>,
                                        <<inst_1_top, str_1>>, <<inst_2_top, str_2>>)
              ELSE tb
    IN  IF str_1 = "bot"
        THEN make_std_interaction(ints, <<"cont-bt-", i_1, i_2, "">>,
                                  <<inst_2_top, "contact-top">>,
                                  <<inst_1_bot, "contact-bot">>)
        ELSE IF inst_2_bot # inst_2_top
        THEN make_std_interaction(tt, <<"cont-side-", i_1, i_2, "bt">>,
                                  <<inst_1_bot, str_1>>, <<inst_2_top, str_2>>)
        ELSE tt

(* for i_1, i_2, (str_1, str_2) in cont_pairs.                             *)
RECURSIVE contact_loop(_, _, _)
contact_loop(ps, cont_pairs, ints) ==
    IF cont_pairs = <<>> THEN ints
    ELSE contact_loop(ps, Tail(cont_pairs),
                      pair_interactions(ps, Head(cont_pairs), ints))

(* make_contact(model, mu, pos_dict, cont_pairs, is_expl): general contact *)
(* from 'Initial' for an explicit model, the interactions of cont_pairs    *)
(* for an implicit one.                                                    *)
make_contact(ps, cont_pairs, is_expl, ints) ==
    IF is_expl = 1
    THEN ints \o <<[name |-> <<"general-contact", 0, 0, "">>,
                    createStepName |-> "Initial",
                    master |-> <<>>, slave |-> <<>>]>>
    ELSE contact_loop(ps, cont_pairs, ints)

----------------------------------------------------------------------------
(* Directories and files.  A path is the sequence of its directory names,  *)
(* a file name the sequence of its pieces ('job', 'ms', '.mdl'), and a     *)
(* file the pair of its directory and its name.                            *)

(* DIR0 = os.path.abspath('') when brickfem is imported.                   *)
DIR0 == <<"work">>

(* The pieces of a name that hold a '.'.                                   *)
number_list == {<<"." \o ToString(i)>> : i \in 1..20}
type0_list ==
    {<<".com">>, <<".sim">>, <<".SMABulk">>, <<".pac">>, <<".abq">>,
     <<".dmp">>, <<".exception">>, <<".simdir">>, <<"ms", ".mdl">>,
     <<"ms", ".prt">>, <<"ms", ".res">>, <<"ms", ".sel">>, <<"ms", ".stt">>}
type_list_default == {<<".log">>, <<".msg">>}
dot_pieces ==
    {e[Len(e)] : e \in type0_list \cup type_list_default \cup number_list}
        \cup {".odb", ".json", ".dat", ".png", ".cae", ".txt"}

(* '.' in i, and file_name.endswith(end_str).                              *)
has_dot(name) == \E k \in DOMAIN name : name[k] \in dot_pieces
endswith(name, end_str) ==
    /\ Len(end_str) <= Len(name)
    /\ SubSeq(name, Len(name) - Len(end_str) + 1, Len(name)) = end_str

(* os.listdir(dir0): the names of the files and directories in dir0.       *)
listdir(os_0, dir0) ==
    {f[2] : f \in {g \in os_0.files : g[1] = dir0}}
        \cup {<<d[Len(d)]>> : d \in {e \in os_0.dirs :
                                    Len(e) = Len(dir0) + 1 /\
                                    SubSeq(e, 1, Len(dir0)) = dir0}}

(* remove_files(dir0, type_list): the names listed in dir0 that hold a     *)
(* '.' and end with one of the strings are passed to os.remove as they     *)
(* are, so a file of that name in the working directory is removed; an     *)
(* error of os.remove is ignored, one of os.listdir is not.                *)
remove_files(os_0, dir0, type_list) ==
    LET ends == type0_list \cup type_list \cup number_list
        file_list == {i \in listdir(os_0, dir0) : has_dot(i)}
        sel == {i \in file_list : \E end_str \in ends : endswith(i, end_str)}
    IN  IF dir0 \notin os_0.dirs
        THEN [error |-> "OSError", os |-> os_0]
        ELSE [error |-> "",
              os |-> [os_0 EXCEPT !.files = @ \ {<<os_0.cwd, i>> : i \in sel}]]

(* A path below or equal to the directory d.                               *)
below(p, d) == Len(d) <= Len(p) /\ SubSeq(p, 1, Len(d)) = d

(* shutil.rmtree(d): the directory, its sub-directories and their files.   *)
rmtree(os_0, d) ==
    [os_0 EXCEPT !.dirs = {e \in @ : ~below(e, d)},
                 !.files = {f \in @ : ~below(f[1], d)}]

(* make_dir(dir_name, if_change, if_clear): dir_name is taken relative to  *)
(* the working directory; the directory is created if it is missing, and   *)
(* emptied if it exists and if_clear is set; then it becomes the working   *)
(* directory if if_change is set.                                          *)
make_dir(os_0, dir_name, if_change, if_clear) ==
    LET dir1 == os_0.cwd \o <<dir_name>>
        cleared == IF dir1 \in os_0.dirs /\ if_clear = 1 THEN rmtree(os_0, dir1)
                   ELSE os_0
    IN  [cleared EXCEPT !.dirs = @ \cup {dir1},
                        !.cwd = IF if_change = 1 THEN dir1 ELSE @]

(* run_dir = model_name + '-' + solver_type[is_expl] + '-mesh...mm'.       *)
run_dir(is_expl) == IF is_expl = 1 THEN "job-expl" ELSE "job-impl"

(* open(name, 'w') in the working directory.                               *)
write_files(os_0, names) ==
    [os_0 EXCEPT !.files = @ \cup {<<os_0.cwd, n>> : n \in names}]

(* run_model(model, job_name): the files Abaqus leaves after the job.      *)
run_model(os_0, job_name) ==
    write_files(os_0, {job_name \o <<e>> : e \in {".cae", ".odb", ".log", ".com"}})

(* A variant that copies the outer dictionary only, as copy.copy does: the *)
(* sub-dictionaries 'parts' and 'bricks' are those of the original.        *)
copy_copy(a) == [obj |-> a, shared |-> {"parts", "bricks"}]

(* copy.deepcopy(assembly0): an equal dictionary that shares no            *)
(* sub-dictionary with the original.                                       *)
deepcopy(a) == [obj |-> a, shared |-> {}]

(* The caller's assembly0 as it is now: a sub-dictionary the working copy  *)
(* shares with it holds what the call has written.                         *)
assembly0_of(fr) ==
    [fr.assembly0 EXCEPT
        !.parts = IF "parts" \in fr.shared THEN parts ELSE @,
        !.bricks = IF "bricks" \in fr.shared THEN brick_dict ELSE @]

(* The model of the explicit load step: the step 'load' after 'Initial',   *)
(* general contact, and 'fix-part-NN' on the sets of the top instances.    *)
explicit_model(ps, bc) ==
    [steps |-> StaticStep(<<"Initial">>, "load", "Initial"),
     bcs |-> [i \in DOMAIN bc |->
                 bc_of(<<"fix-part-", i, 0>>, "Initial",
                       << <<bc[i].part_id, "TOP">>, bc[i].set_name>>,
                       0, <<0, 0>>, "")],
     ints |-> make_contact(ps, <<>>, 1, <<>>)]

(* The files of a job of the given name, and of the explicit load step.    *)
job_name == <<"job">>
expl_name == <<"job", "-1", "ms">>

----------------------------------------------------------------------------
(* model_wall: the bricks of a wall from its connection flags.             *)

(* A variant that leaves out the brick that is open at the end of the row. *)
RECURSIVE get_bricks_open(_, _, _)
get_bricks_open(row, i_temp, brick_list) ==
    IF row = <<>> THEN brick_list
    ELSE IF Head(row) = 1
    THEN get_bricks_open(Tail(row), i_temp + 1, brick_list)
    ELSE get_bricks_open(Tail(row), 1, brick_list \o <<i_temp>>)

(* The loop of get_bricks over the rest of a row, with the length i_temp   *)
(* of the brick in progress and the bricks found so far; the brick in      *)
(* progress is appended after the loop.                                    *)
RECURSIVE get_bricks_loop(_, _, _)
get_bricks_loop(row, i_temp, brick_list) ==
    IF row = <<>> THEN brick_list \o <<i_temp>>
    ELSE IF Head(row) = 1
    THEN get_bricks_loop(Tail(row), i_temp + 1, brick_list)
    ELSE get_bricks_loop(Tail(row), 1, brick_list \o <<i_temp>>)

get_bricks(row) == get_bricks_loop(row, 1, <<>>)

(* make_bricks(wall): the brick lengths of every row.                      *)
make_bricks(wall) == [k \in DOMAIN wall |-> get_bricks(wall[k])]

----------------------------------------------------------------------------
(* make_abq_brick: the sets STUD-ij of the top part.                       *)

(* str(i) of an integer.                                                   *)
str(i) == ToString(i)

(* p.Set(name=..., faces=...): the repository p.sets holds one set under a *)
(* name, and a set created under a name in use replaces the older one.     *)
(* The repository is the list of its (name, faces) entries.                *)
Set(sets, name, faces) ==
    LET other(e) == e[1] # name
    IN  SelectSeq(sets, other) \o << <<name, faces>> >>

(* The studs in the order of the loops: i_z outside, i_x inside.           *)
stud_order(nx, nz) ==
    [k \in 1..(nx * nz) |-> <<((k - 1) % nx) + 1, ((k - 1) \div nx) + 1>>]

(* One pass of the inner loop for the stud (i_x, i_z):                     *)
(* p_top.Set(name='STUD-' + str(i_x) + str(i_z), faces=<top of the stud>)  *)
stud_set(sets, stud) ==
    Set(sets, "STUD-" \o str(stud[1]) \o str(stud[2]), stud)

----------------------------------------------------------------------------
(* color_bricks                                                            *)

dict_file == <<"_dict-assembly", ".json">>
color_file == <<"_color-file", ".dat">>

(* The keys color_bricks looks up in assembly['parts'], in the order of    *)
(* the lookups: '1' for the test of "c", then str(i_part+1) for i_part in  *)
(* range(len(assembly['parts'])) if part 1 holds a colour.  The lookup of  *)
(* a key the mapping does not hold is the last one.                        *)
color_lookups(ids, colored) ==
    LET all == IF 1 \in colored
               THEN <<1>> \o [k \in 1..Cardinality(ids) |-> k]
               ELSE <<1>>
        absent == {n \in DOMAIN all : all[n] \notin ids}
    IN  IF absent = {} THEN all
        ELSE SubSeq(all, 1, CHOOSE n \in absent : \A m \in absent : n <= m)

(* color_bricks(vp1, instances) for an assembly with the part ids `ids`,   *)
(* of which `colored` hold a key 'c': it reads _dict-assembly.json in the  *)
(* working directory, looks up the parts, and without colours reads        *)
(* _color-file.dat or, if that is missing, writes it.                      *)
color_bricks(ids, colored, os_0) ==
    LET lookups == color_lookups(ids, colored)
    IN  IF <<os_0.cwd, dict_file>> \notin os_0.files
        THEN [error |-> "IOError", lookups |-> <<>>, os |-> os_0]
        ELSE IF \E n \in DOMAIN lookups : lookups[n] \notin ids
        THEN [error |-> "KeyError", lookups |-> lookups, os |-> os_0]
        ELSE [error |-> "", lookups |-> lookups,
              os |-> IF 1 \in colored THEN os_0
                     ELSE [os_0 EXCEPT
                             !.files = @ \cup {<<os_0.cwd, color_file>>}]]

----------------------------------------------------------------------------
(* Inputs.                                                                 *)

(* Origins of the placements of an assembly: on the ground, one stud to    *)
(* the right, one brick up.                                                *)
Locs == {<<0, 0, 0>>, <<b, 0, 0>>, <<0, h, 0>>}

(* Part 1 is placed at the origin; the other parts anywhere in Locs.       *)
Placements(i) ==
    {new_part(k, loc) : k \in DOMAIN bricks,
                        loc \in IF i = 1 THEN {<<0, 0, 0>>} ELSE Locs}

Assemblies ==
    UNION {{(1 :> p1) @@ rest : p1 \in Placements(1),
                               rest \in [2..n -> Placements(2)]} :
              n \in 2..MaxParts}

(* The keys of the mapping were inserted in ascending or descending order. *)
Orders(n) == {[k \in 1..n |-> k], [k \in 1..n |-> n + 1 - k]}

(* The assembly of the docstring of make_widen_cont: four 2x1 bricks over  *)
(* three 2x1 bricks.                                                       *)
DocAssembly ==
    1 :> new_part(1, <<0, 0, 0>>) @@
    2 :> new_part(1, <<2 * b, 0, 0>>) @@
    3 :> new_part(1, <<4 * b, 0, 0>>) @@
    4 :> new_part(1, <<6 * b, 0, 0>>) @@
    5 :> new_part(1, <<b, -h, 0>>) @@
    6 :> new_part(1, <<3 * b, -h, 0>>) @@
    7 :> new_part(1, <<5 * b, -h, 0>>)

(* Origins of the second part of a pair: up to two studs in x, one in z,   *)
(* and heights within MaxOff * TOL of the levels at which the branches of  *)
(* check_two_parts change.                                                 *)
YLevels == {-h, -(h \div 3), -h_top, 0, h \div 3, h, h + h_stud}
YFine == {y + d * TOL : y \in YLevels, d \in -MaxOff..MaxOff}
PairLocs == {<<x, y, z>> : x \in {0, b, 2 * b}, y \in YFine, z \in {0, b}}

----------------------------------------------------------------------------
(* State machine.                                                          *)

NoResult == <<>>

(* The run directory of make_model below DIR0, and the process before a   *)
(* call: in DIR0, nothing on disk but DIR0.                                *)
run_path == DIR0 \o <<"run">>
new_os == [cwd |-> DIR0, dirs |-> {DIR0}, files |-> {}]

InitCommon ==
    /\ err = ""
    /\ calls = 0
    /\ dict_widen = NoResult
    /\ cont_list = NoResult
    /\ prev = NoResult
    /\ rel = NoResult

(* A brick of assembly['bricks'] before make_assembly: the nodes of the    *)
(* set 'cont-bot-touch' of its mesh, no node sets, no move_nodes.          *)
new_brick(nodes) == [nodes |-> nodes, sets |-> <<>>, move_nodes |-> <<>>]

(* The Abaqus model after Mdb(): the step Initial, no boundary condition,  *)
(* no interaction.                                                         *)
new_model == [steps |-> <<"Initial">>, bcs |-> <<>>, ints |-> <<>>]

(* A mesh with one node per cavity, on the wall at the nominal stud        *)
(* radius, so that it lies delta_r inside the stud cylinder.               *)
wall_nodes(brick) ==
    LET centres == stud_centres(brick.nx, brick.nz, b)
    IN  [k \in DOMAIN centres |->
            <<k, centres[k][1] + r_stud - delta_r, centres[k][2], 0>>]

InitBricks ==
    /\ brick_dict = [i \in DOMAIN bricks |-> new_brick(wall_nodes(bricks[i]))]
    /\ model = new_model

InitMesh == InitBricks /\ frame = NoResult /\ os = new_os

Init ==
    /\ parts \in Assemblies \cup {DocAssembly}
    /\ order \in IF parts = DocAssembly THEN {[k \in 1..7 |-> k]}
                 ELSE Orders(Cardinality(DOMAIN parts))
    /\ InitCommon
    /\ InitMesh

InitPair ==
    /\ parts \in {1 :> p1 @@ 2 :> p2 :
                     p1 \in Placements(1),
                     p2 \in {new_part(k, loc) : k \in DOMAIN bricks,
                                                loc \in PairLocs}}
    /\ order = <<1, 2>>
    /\ InitCommon
    /\ InitMesh

(* One part, or that part and a 1 x 1 brick at the origin; the brick_id    *)
(* is any of the catalog or one the catalog does not hold, and the origin  *)
(* lies within MaxOff * 0.001 mm of a grid point, below zero too, or just  *)
(* beyond half a grid step.                                                *)
AbsentId == 9
PlaceXs == {g * b + d : g \in -1..1, d \in -MaxOff..MaxOff}
               \cup {(b \div 2) + 1, -(b \div 2) - 1}
PlaceZs == {0, b - 1, -b}
PlaceParts ==
    {new_part(k, <<x, 0, z>>) :
        k \in DOMAIN catalog \cup {AbsentId}, x \in PlaceXs, z \in PlaceZs}

InitPlace ==
    /\ parts \in {1 :> p : p \in PlaceParts}
                 \cup {1 :> p @@ 2 :> new_part(2, <<0, 0, 0>>) : p \in PlaceParts}
    /\ order \in Orders(Cardinality(DOMAIN parts))
    /\ InitCommon
    /\ InitMesh

(* make_abq_brick before the loops that create the STUD sets, for a brick  *)
(* of any type with up to MaxFoot studs along each axis; n counts the      *)
(* passes of the inner loop.                                               *)
InitStuds ==
    /\ frame \in {[fn |-> "make_abq_brick", b_type |-> t, nx |-> nx, nz |-> nz,
                   n |-> 0, sets |-> <<>>, out |-> NoResult] :
                     t \in {"regular", "plate", "tile", "base-plate"},
                     nx \in 1..MaxFoot, nz \in 1..MaxFoot}
    /\ parts = <<>>
    /\ order = <<>>
    /\ InitCommon
    /\ brick_dict = <<>>
    /\ model = new_model
    /\ os = new_os

(* The part ids of model_case_5.                                           *)
Case5Ids == {5, 6} \cup 9..30

(* A call of color_bricks by print_assembly in the run directory, which    *)
(* holds _dict-assembly.json and, after an earlier run, _color-file.dat.   *)
(* The part ids are any of 1..MaxId or those of model_case_5; any of the   *)
(* parts hold a colour (all or none of model_case_5).                      *)
InitColor ==
    /\ frame \in {[fn |-> "color_bricks", ids |-> ids, colored |-> c,
                   lookups |-> <<>>, error |-> "", out |-> NoResult] :
                     ids \in (SUBSET (1..MaxId)) \ {{}}, c \in SUBSET (1..MaxId)}
                 \cup
                 {[fn |-> "color_bricks", ids |-> Case5Ids, colored |-> c,
                   lookups |-> <<>>, error |-> "", out |-> NoResult] :
                     c \in {{}, Case5Ids}}
    /\ frame.colored \subseteq frame.ids
    /\ os \in {[cwd |-> run_path, dirs |-> {DIR0, run_path},
                 files |-> {<<run_path, dict_file>>} \cup fs] :
                   fs \in {{}, {<<run_path, color_file>>}}}
    /\ parts = <<>>
    /\ order = <<>>
    /\ InitCommon
    /\ brick_dict = <<>>
    /\ model = new_model

(* assembly['bc'] of the docstring of make_model.                          *)
DocBC == <<[part_id |-> 1, set_name |-> "BOTTOM"]>>

(* Meshes of the bricks for make_model_ini: one node on the wall of every  *)
(* cavity (0); these and a node on the axis and a node on the cylinder of  *)
(* the first cavity (1); the node on the cylinder alone (2).               *)
ini_nodes(brick, v) ==
    LET n == brick.nx * brick.nz
        extra == << <<n + 1, 0, 0, 0>>, <<n + 2, r_stud, 0, h_stud>> >>
    IN  IF v = 0 THEN wall_nodes(brick)
        ELSE IF v = 1 THEN wall_nodes(brick) \o extra
        ELSE <<extra[2]>>

(* Part 1 at the origin and a second part in Locs.                         *)
IniAssemblies ==
    {1 :> p1 @@ 2 :> p2 : p1 \in Placements(1), p2 \in Placements(2)}

(* assembly['bc']: none, the bottom of part 1, the top faces of part 2.    *)
IniBCs ==
    {<<>>,
     <<[part_id |-> 1, set_name |-> "BOTTOM"]>>,
     <<[part_id |-> 1, set_name |-> "BOTTOM"],
       [part_id |-> 2, set_name |-> "TOP-FACES"]>>}

(* make_widen_cont with or without make_assembly before it: one part, two  *)
(* parts, or the assembly of the docstring of make_widen_cont.             *)
InitOrder ==
    /\ parts \in {1 :> p : p \in Placements(1)} \cup IniAssemblies
                 \cup {DocAssembly}
    /\ order \in IF parts = DocAssembly THEN {[k \in 1..7 |-> k]}
                 ELSE Orders(Cardinality(DOMAIN parts))
    /\ InitCommon
    /\ InitMesh

(* A call of make_model_ini by make_model, which passes is_tet = is_expl;  *)
(* assembly['loads_rp'] is empty.                                          *)
InitIni ==
    /\ parts \in IniAssemblies
    /\ order \in Orders(2)
    /\ InitCommon
    /\ brick_dict \in {[i \in DOMAIN bricks |-> new_brick(ini_nodes(bricks[i], v))] :
                          v \in 0..2}
    /\ model = new_model
    /\ frame \in {[fn |-> "make_model_ini", is_expl |-> e, is_tet |-> e,
                   bc |-> bc, out |-> NoResult] : e \in {0, 1}, bc \in IniBCs}
    /\ os = [cwd |-> run_path, dirs |-> {DIR0, run_path},
             files |-> {<<run_path, <<"_dict-assembly", ".json">> >>}]

(* A script that has imported brickfem in DIR0 and holds an assembly: two  *)
(* parts, the bottom of part 1 fixed, no loads; the mesh of the bricks is  *)
(* any of ini_nodes.  make_model has not been called.                      *)
InitModel ==
    /\ parts \in IniAssemblies
    /\ order = <<1, 2>>
    /\ InitCommon
    /\ brick_dict \in {[i \in DOMAIN bricks |-> new_brick(ini_nodes(bricks[i], v))] :
                          v \in 0..2}
    /\ model = new_model
    /\ os = new_os
    /\ frame = [fn |-> "make_model",
                assembly0 |-> [parts |-> parts, bricks |-> brick_dict,
                               bc |-> DocBC],
                at_call |-> NoResult, shared |-> {}, is_new |-> 1,
                is_expl |-> 0, pc |-> "idle", runs |-> 0, error |-> "",
                cwd0 |-> os.cwd]

(* Names of files: a log, a message file, results, a restart file of an    *)
(* explicit run and of an implicit run, a numbered file, the assembly      *)
(* dictionary, a name without '.'.                                         *)
FileNames ==
    {<<"job", ".log">>, <<"job", ".msg">>, <<"job", ".odb">>,
     <<"job", "-1", "ms", ".mdl">>, <<"job", ".mdl">>, <<"job", ".3">>,
     <<"_dict-assembly", ".json">>, <<"notes">>}

(* The disks of a remove_files call: the directories DIR0 and run, with    *)
(* up to MaxFiles files in them; the working directory is either.          *)
Disks ==
    {[cwd |-> c, dirs |-> {DIR0, run_path}, files |-> fs] :
        c \in {DIR0, run_path},
        fs \in {x \in SUBSET ({DIR0, run_path} \X FileNames) :
                   Cardinality(x) <= MaxFiles}}

(* A call of remove_files that has not returned, for a directory that      *)
(* exists or not and the default or an extended type_list.                 *)
InitFiles ==
    /\ os \in Disks
    /\ frame \in {[fn |-> "remove_files", dir0 |-> d, type_list |-> t,
                   before |-> os, out |-> NoResult] :
                     d \in {DIR0, run_path, DIR0 \o <<"gone">>},
                     t \in {type_list_default, {<<".odb">>}}}
    /\ parts = 1 :> new_part(2, <<0, 0, 0>>)
    /\ order = <<1>>
    /\ InitCommon
    /\ InitBricks

(* Rows of 0/1 connection flags of up to MaxRow places, and walls of one   *)
(* row or of a row over the row of the docstring of make_wall_model.       *)
RECURSIVE RowsOf(_)
RowsOf(n) ==
    IF n = 0 THEN {<<>>}
    ELSE {r \o <<f>> : r \in RowsOf(n - 1), f \in {0, 1}}
Rows == UNION {RowsOf(n) : n \in 0..MaxRow}
DocRow == <<0, 0, 1, 1, 1>>
Walls == {<<r>> : r \in Rows} \cup {<<DocRow, r>> : r \in Rows}

(* A call of make_bricks that has not returned.                            *)
InitWall ==
    /\ frame \in {[fn |-> "make_bricks", wall |-> w, out |-> NoResult] :
                     w \in Walls}
    /\ parts = 1 :> new_part(2, <<0, 0, 0>>)
    /\ order = <<1>>
    /\ InitCommon
    /\ InitBricks
    /\ os = new_os

(* np.linspace for up to MaxStuds positions: x_arr and z_arr of            *)
(* make_abq_brick and other evenly spaced arrays.                          *)
linspace(x0, step, n) == [k \in 1..n |-> x0 + (k - 1) * step]
MidArrays ==
    {linspace(x0, step, n) : x0 \in {0, -b}, step \in {b, 2}, n \in 1..MaxStuds}

(* A call of make_middle_pos that has not returned.                        *)
InitMid ==
    /\ frame \in {[fn |-> "make_middle_pos", x_arr |-> x, z_arr |-> z,
                   out |-> NoResult] : x \in MidArrays, z \in MidArrays}
    /\ parts = 1 :> new_part(2, <<0, 0, 0>>)
    /\ order = <<1>>
    /\ InitCommon
    /\ InitBricks
    /\ os = new_os

(* Places of the nodes of a 'cont-bot-touch' set, (x, y, z) with z along   *)
(* the stud axis: on the axis of the first stud, just inside and on its    *)
(* cylinder, at and above the height h_stud + mesh_size/2, half way to the *)
(* next stud and just before, and inside the next stud in x, in y and in   *)
(* both.  The node at place k has the label k.                             *)
NodePlaces ==
    << <<0, 0, 0>>,
       <<r_stud - 1, 0, 0>>,
       <<r_stud, 0, 0>>,
       <<1410, 1880, 0>>,
       <<-1400, -1800, h_stud + mesh_size \div 2>>,
       <<-1400, -1800, h_stud + mesh_size \div 2 + 1>>,
       <<b \div 2, 0, 0>>,
       <<(b \div 2) - 1, 0, 0>>,
       <<b - 1000, 0, 0>>,
       <<0, b + 500, 0>>,
       <<b, b, h_stud>> >>

node_at(k) == <<k, NodePlaces[k][1], NodePlaces[k][2], NodePlaces[k][3]>>

(* The meshes: up to MaxNodes of these nodes, in ascending label order.    *)
RECURSIVE MeshesFrom(_, _)
MeshesFrom(k, n) ==
    IF n = 0 \/ k > Len(NodePlaces) THEN {<<>>}
    ELSE MeshesFrom(k + 1, n)
         \cup {<<node_at(k)>> \o m : m \in MeshesFrom(k + 1, n - 1)}

Meshes == MeshesFrom(1, MaxNodes)

(* One brick of the catalog with a mesh, one part of it at the origin, and *)
(* a call of make_u_nodes on the part of the brick that has not returned,  *)
(* for the stud radius of make_abq_brick or the largest one the grid       *)
(* allows, b/2.                                                            *)
InitBrick ==
    /\ \E i_brick \in DOMAIN bricks :
          /\ brick_dict \in {i_brick :> new_brick(m) : m \in Meshes}
          /\ parts = 1 :> new_part(i_brick, <<0, 0, 0>>)
          /\ frame \in {[fn |-> "make_u_nodes", i_brick |-> i_brick,
                         r_stud |-> r, error |-> "", sets |-> <<>>,
                         out |-> NoResult] :
                           r \in {r_stud, b \div 2}}
    /\ model = new_model
    /\ order = <<1>>
    /\ InitCommon
    /\ os = new_os

(* make_assembly(assembly, lego_geom, mesh_size, is_tet): a new model;     *)
(* every brick gets the 'move_nodes' make_abq_brick returns, its part the  *)
(* node sets, and every part gets its 'instance'.  The bricks are made in  *)
(* ascending key order; an IndexError of make_u_nodes ends the call with   *)
(* the bricks before it made.                                              *)
MakeAssembly(is_tet) ==
    /\ err = ""
    /\ ~has_instance(parts)
    /\ model' = new_model
    /\ LET made == [i \in DOMAIN brick_dict |->
                       make_abq_brick(bricks[i], brick_dict[i].nodes)]
           failed == {i \in DOMAIN brick_dict : made[i].error # ""}
           write(i) == [brick_dict[i] EXCEPT !.sets = made[i].sets,
                                             !.move_nodes = made[i].move_nodes]
       IN  IF failed = {}
           THEN /\ brick_dict' = [i \in DOMAIN brick_dict |-> write(i)]
                /\ parts' = [i \in DOMAIN parts |->
                                [parts[i] EXCEPT !.instance =
                                    instance_of(i, bricks[parts[i].brick_id].type,
                                                is_tet)]]
                /\ err' = err
           ELSE /\ brick_dict' = [i \in DOMAIN brick_dict |->
                                     IF \A j \in failed : i < j THEN write(i)
                                     ELSE brick_dict[i]]
                /\ parts' = parts
                /\ err' = "IndexError"
    /\ UNCHANGED <<order, calls, dict_widen, cont_list, prev, rel, frame, os>>

(* make_parts(assembly['bricks'], assembly['parts'], b, h, h_top).         *)
MakeParts ==
    /\ err = ""
    /\ LET n == first_error(parts, order)
       IN  IF n = 0
           THEN parts' = make_parts(parts) /\ err' = err
           ELSE /\ parts' = make_parts_until(parts, order, n)
                /\ err' = part_error(parts[order[n]])
    /\ UNCHANGED <<order, calls, dict_widen, cont_list, prev, rel,
                   brick_dict, model, frame, os>>

(* make_middle_pos(x_arr, z_arr) returns.                                  *)
MakeMiddlePos ==
    /\ frame.fn = "make_middle_pos"
    /\ frame.out = NoResult
    /\ frame' = [frame EXCEPT !.out = make_middle_pos(frame.x_arr, frame.z_arr)]
    /\ UNCHANGED <<parts, order, err, calls, dict_widen, cont_list, prev, rel,
                   brick_dict, model, os>>

(* make_u_nodes(p, nx, nz, b, r_stud, h_stud, mesh_size) called on the     *)
(* freshly meshed part of a brick: it returns move_nodes, the node sets    *)
(* created on the part, or raises.                                         *)
MakeUNodes ==
    /\ err = ""
    /\ frame.fn = "make_u_nodes"
    /\ frame.out = NoResult
    /\ brick_dict[frame.i_brick].sets = <<>>
    /\ LET brick == bricks[frame.i_brick]
           res == make_u_nodes(brick_dict[frame.i_brick].nodes, brick.nx,
                               brick.nz, b, frame.r_stud, h_stud, mesh_size)
       IN  IF res.error = ""
           THEN /\ frame' = [frame EXCEPT !.out = array(res.move_nodes),
                                           !.sets = res.sets]
                /\ brick_dict' = [brick_dict EXCEPT
                                     ![frame.i_brick].sets = res.sets]
                /\ err' = err
           ELSE /\ frame' = [frame EXCEPT !.error = res.error]
                /\ brick_dict' = brick_dict
                /\ err' = res.error
    /\ UNCHANGED <<parts, order, calls, dict_widen, cont_list, prev, rel,
                   model, os>>

(* check_two_parts(parts[i], parts[j], h_stud, b): a KeyError if a part    *)
(* holds no 'instance' or no 'stud_list'.                                  *)
CheckTwoParts(i, j) ==
    /\ err = ""
    /\ IF has_instance(parts) /\ has_stud_list(parts)
       THEN /\ rel' = <<i, j, check_two_parts(parts[i], parts[j])>>
            /\ err' = err
       ELSE /\ err' = "KeyError"
            /\ rel' = rel
    /\ UNCHANGED <<parts, order, calls, dict_widen, cont_list, prev,
                   brick_dict, model, frame, os>>

(* A variant in which check_two_parts takes a part without 'instance' for  *)
(* unrelated to every other part.                                          *)
call_widen_cont_lenient(ps, ord) ==
    IF has_instance(ps) THEN [error |-> ""] @@ make_widen_cont(ps, ord)
    ELSE [error |-> "", parts |-> make_parts(ps),
          dict_widen |-> [k_part \in DOMAIN ps |-> <<>>], cont_list |-> <<>>]

(* The outcome of make_widen_cont on a mapping make_parts accepts: the     *)
(* first check_two_parts call reads part1['instance'] and raises a         *)
(* KeyError if make_assembly has not written it; a mapping of one part has *)
(* no pair, so that check_two_parts is not called.                         *)
call_widen_cont(ps, ord) ==
    IF Cardinality(DOMAIN ps) >= 2 /\ ~has_instance(ps)
    THEN [error |-> "KeyError", parts |-> make_parts(ps),
          dict_widen |-> NoResult, cont_list |-> NoResult]
    ELSE [error |-> ""] @@ make_widen_cont(ps, ord)

(* make_widen_cont(assembly, lego_geom): make_parts annotates the mapping, *)
(* then the first check_two_parts raises a KeyError if make_assembly has   *)
(* not run; otherwise the call returns (dict_widen, cont_list).            *)
MakeWidenCont ==
    /\ err = ""
    /\ calls < MaxCalls
    /\ LET n == first_error(parts, order)
       IN  IF n # 0
           THEN /\ parts' = make_parts_until(parts, order, n)
                /\ err' = part_error(parts[order[n]])
                /\ UNCHANGED <<calls, dict_widen, cont_list, prev>>
           ELSE LET out == call_widen_cont(parts, order)
                IN  /\ parts' = out.parts
                    /\ err' = out.error
                    /\ IF out.error = ""
                       THEN /\ dict_widen' = out.dict_widen
                            /\ cont_list' = out.cont_list
                            /\ prev' = IF calls = 0 THEN NoResult
                                       ELSE <<dict_widen, cont_list>>
                            /\ calls' = calls + 1
                       ELSE UNCHANGED <<calls, dict_widen, cont_list, prev>>
    /\ UNCHANGED <<order, rel, brick_dict, model, frame, os>>

(* The loops of make_abq_brick that create the sets STUD-ij: one pass, or  *)
(* the end of the loops; a tile has no such sets.                          *)
MakeStudSets ==
    /\ frame.fn = "make_abq_brick"
    /\ frame.out = NoResult
    /\ LET studs == stud_order(frame.nx, frame.nz)
       IN  IF frame.b_type # "tile" /\ frame.n < Len(studs)
           THEN frame' = [frame EXCEPT
                            !.n = @ + 1,
                            !.sets = stud_set(@, studs[frame.n + 1])]
           ELSE frame' = [frame EXCEPT !.out = array(frame.sets)]
    /\ UNCHANGED <<parts, order, err, calls, dict_widen, cont_list, prev, rel,
                   brick_dict, model, os>>

(* color_bricks called by print_assembly.                                  *)
ColorBricks ==
    /\ frame.fn = "color_bricks"
    /\ frame.out = NoResult
    /\ frame.error = ""
    /\ LET res == color_bricks(frame.ids, frame.colored, os)
       IN  /\ frame' = [frame EXCEPT
                           !.lookups = res.lookups,
                           !.error = res.error,
                           !.out = IF res.error = "" THEN None ELSE NoResult]
           /\ os' = res.os
           /\ err' = res.error
    /\ UNCHANGED <<parts, order, calls, dict_widen, cont_list, prev, rel,
                   brick_dict, model>>

(* make_bricks(wall) called on its own.                                    *)
MakeBricks ==
    /\ frame.fn = "make_bricks"
    /\ frame.out = NoResult
    /\ frame' = [frame EXCEPT !.out = array(make_bricks(frame.wall))]
    /\ UNCHANGED <<parts, order, err, calls, dict_widen, cont_list, prev, rel,
                   brick_dict, model, os>>

(* remove_files(dir0, type_list) called on its own.                        *)
RemoveFiles ==
    /\ err = ""
    /\ frame.fn = "remove_files"
    /\ frame.out = NoResult
    /\ LET res == remove_files(os, frame.dir0, frame.type_list)
       IN  /\ os' = res.os
           /\ err' = res.error
           /\ frame' = IF res.error = "" THEN [frame EXCEPT !.out = None]
                       ELSE frame
    /\ UNCHANGED <<parts, order, calls, dict_widen, cont_list, prev, rel,
                   brick_dict, model>>

(* make_model_ini after make_assembly and make_widen_cont have returned:   *)
(* the steps 'widen', 'contact' and 'free', the boundary conditions of     *)
(* assembly['bc'], and for every part the widening displacements and the   *)
(* fixed top faces; then print_assembly, whose color_bricks may raise,     *)
(* prints the image of the assembly.                                       *)
MakeModelIni ==
    /\ err = ""
    /\ frame.fn = "make_model_ini"
    /\ calls = 1
    /\ model.steps = <<"Initial">>
    /\ model' = [model EXCEPT
                    !.steps = clamping_steps(@),
                    !.bcs = widen_parts(parts, brick_dict, dict_widen, order,
                                        fix_loop(parts, frame.bc, 1, @))]
    /\ LET col == color_bricks(DOMAIN parts, {}, os)
       IN  /\ err' = col.error
           /\ os' = IF col.error = ""
                     THEN write_files(col.os, {job_name \o <<"-ass", ".png">>})
                     ELSE col.os
    /\ UNCHANGED <<parts, order, calls, dict_widen, cont_list, prev, rel,
                   brick_dict, frame>>

(* The end of make_model_ini: make_contact(..., is_expl=0) creates the     *)
(* interactions of cont_pairs; make_model_load(..., if_prestep=1) adds the *)
(* step 'load' after 'free' for an implicit load and returns at once for   *)
(* an explicit one; make_load_rps and make_loads create nothing without    *)
(* loads_rp; then the model is run and make_model_ini returns None.        *)
MakeModelLoad ==
    /\ err = ""
    /\ frame.fn = "make_model_ini"
    /\ frame.out = NoResult
    /\ "free" \in Range(model.steps)
    /\ model' = [model EXCEPT
                    !.ints = make_contact(parts, cont_list, 0, @),
                    !.steps = IF frame.is_expl = 0
                              THEN StaticStep(@, "load", "free")
                              ELSE @]
    /\ frame' = [frame EXCEPT !.out = None]
    /\ os' = run_model(IF frame.is_expl = 0
                       THEN write_files(os, {job_name \o <<"-par", ".json">>})
                       ELSE os,
                       job_name)
    /\ UNCHANGED <<parts, order, err, calls, dict_widen, cont_list, prev, rel,
                   brick_dict>>

(* make_model(assembly0, explicit_par, is_new=is_new) up to the call of    *)
(* make_model_ini or, without it, up to the load: remove_files(DIR0), the  *)
(* working copy of assembly0, the run directory, _dict-assembly.json.      *)
MakeModel(is_expl, is_new) ==
    /\ frame.fn = "make_model"
    /\ frame.pc = "idle"
    /\ frame.runs < MaxRuns
    /\ LET a0 == assembly0_of(frame)
           assembly == deepcopy(a0)
           os1 == remove_files(os, DIR0, type_list_default).os
           os2 == make_dir(os1, run_dir(is_expl), 1, is_new)
           me == [frame EXCEPT !.at_call = a0, !.shared = assembly.shared,
                               !.is_new = is_new, !.is_expl = is_expl,
                               !.pc = IF is_new = 1 THEN "ini" ELSE "load",
                               !.runs = @ + 1, !.error = ""]
       IN  /\ parts' = assembly.obj.parts
           /\ brick_dict' = assembly.obj.bricks
           /\ os' = write_files(os2, {dict_file})
           /\ frame' = IF is_new = 1
                        THEN [fn |-> "make_model_ini", is_expl |-> is_expl,
                              is_tet |-> is_expl, bc |-> assembly.obj.bc,
                              out |-> NoResult, caller |-> me]
                        ELSE me
    /\ err' = ""
    /\ calls' = 0
    /\ dict_widen' = NoResult
    /\ cont_list' = NoResult
    /\ prev' = NoResult
    /\ rel' = NoResult
    /\ UNCHANGED <<order, model>>

(* The rest of make_model after make_model_ini has returned or was not     *)
(* called: for an explicit load make_model_load loads the results of the   *)
(* clamping from the odb of the job, which raises if there is none, and    *)
(* runs the explicit model; then remove_files(DIR0 + '/' + run_dir) and    *)
(* os.chdir(DIR0).                                                         *)
MakeModelEnd ==
    /\ err = ""
    /\ \/ frame.fn = "make_model_ini" /\ "caller" \in DOMAIN frame
                                       /\ frame.out # NoResult
       \/ frame.fn = "make_model" /\ frame.pc = "load"
    /\ LET me == IF frame.fn = "make_model" THEN frame ELSE frame.caller
           has_odb == <<os.cwd, job_name \o <<".odb">> >> \in os.files
           os1 == IF me.is_expl = 1
                  THEN run_model(write_files(os, {expl_name \o <<"-par", ".json">>,
                                                  expl_name \o <<".mdl">>}),
                                 expl_name)
                  ELSE os
           rem == remove_files(os1, DIR0 \o <<run_dir(me.is_expl)>>,
                               type_list_default)
       IN  IF me.is_expl = 1 /\ ~has_odb
           THEN /\ err' = "OdbError"
                /\ frame' = [me EXCEPT !.pc = "idle", !.error = "OdbError"]
                /\ model' = new_model
                /\ os' = os
           ELSE /\ err' = rem.error
                /\ frame' = [me EXCEPT !.pc = "idle", !.error = rem.error]
                /\ model' = IF me.is_expl = 1
                             THEN explicit_model(parts, me.assembly0.bc)
                             ELSE model
                /\ os' = IF rem.error = "" THEN [rem.os EXCEPT !.cwd = DIR0]
                          ELSE rem.os
    /\ UNCHANGED <<parts, order, calls, dict_widen, cont_list, prev, rel,
                   brick_dict>>

(* An exception raised in make_model_ini ends make_model at that point.    *)
MakeModelRaise ==
    /\ err # ""
    /\ frame.fn = "make_model_ini"
    /\ "caller" \in DOMAIN frame
    /\ frame' = [frame.caller EXCEPT !.pc = "idle", !.error = err]
    /\ UNCHANGED <<parts, order, err, calls, dict_widen, cont_list, prev, rel,
                   brick_dict, model, os>>

(* The implicit run of make_model (explicit_par == {}, so is_tet = 0):     *)
(* make_model_ini calls make_assembly, then make_widen_cont.               *)
Next == MakeAssembly(0) \/ MakeWidenCont

(* Two parts, either mesh, and the functions called one by one.            *)
NextPair ==
    \/ \E is_tet \in {0, 1} : MakeAssembly(is_tet)
    \/ MakeParts
    \/ \E i, j \in DOMAIN parts : CheckTwoParts(i, j)
    \/ MakeWidenCont

(* make_parts called on its own.                                           *)
NextPlace == MakeParts

Spec == Init /\ [][Next]_vars

SpecPlace == InitPlace /\ [][NextPlace]_vars

SpecMid == InitMid /\ [][MakeMiddlePos]_vars

(* One brick: make_u_nodes on its own, and make_assembly with either mesh. *)
NextBrick ==
    \/ MakeUNodes
    \/ \E is_tet \in {0, 1} : MakeAssembly(is_tet)

SpecBrick == InitBrick /\ [][NextBrick]_vars

(* make_model_ini: make_assembly, make_widen_cont, the clamping steps and  *)
(* boundary conditions, the load step.                                     *)
NextIni ==
    \/ MakeAssembly(frame.is_tet)
    \/ (has_instance(parts) /\ calls = 0 /\ MakeWidenCont)
    \/ MakeModelIni
    \/ MakeModelLoad

SpecIni == InitIni /\ [][NextIni]_vars

SpecFiles == InitFiles /\ [][RemoveFiles]_vars

SpecWall == InitWall /\ [][MakeBricks]_vars

SpecOrder == InitOrder /\ [][Next]_vars

SpecStuds == InitStuds /\ [][MakeStudSets]_vars

SpecColor == InitColor /\ [][ColorBricks]_vars

(* A script that calls make_model up to MaxRuns times, with or without     *)
(* explicit_par and with is_new 0 or 1, and goes on after an exception.    *)
NextModel ==
    \/ \E is_expl, is_new \in {0, 1} : MakeModel(is_expl, is_new)
    \/ (frame.fn = "make_model_ini" /\ MakeAssembly(frame.is_tet))
    \/ (frame.fn = "make_model_ini" /\ has_instance(parts) /\ calls = 0
           /\ MakeWidenCont)
    \/ MakeModelIni
    \/ MakeModelLoad
    \/ MakeModelEnd
    \/ MakeModelRaise

SpecModel == InitModel /\ [][NextModel]_vars

SpecPair == InitPair /\ [][NextPair]_vars

----------------------------------------------------------------------------
(* Vocabulary of the properties.                                           *)

Studs(part) == Range(part.stud_list)

Count(list, e) == Cardinality({n \in DOMAIN list : list[n] = e})

(* A check_two_parts call on two different parts has been recorded.        *)
Checked == rel # NoResult /\ rel[1] # rel[2]

(* make_widen_cont has returned.                                           *)
Done == calls >= 1

(* The kind the call in the other direction returns.                       *)
KindBack == check_two_parts(parts[rel[2]], parts[rel[1]])[1]

(* The vertical extents overlap by more than TOL.                          *)
VertOverlap(A, B) ==
    /\ A.y_range[1] + TOL < B.y_range[2]
    /\ B.y_range[1] + TOL < A.y_range[2]

(* Two parts occupy the same stud grid position at overlapping heights.    *)
Interpenetrate(A, B) ==
    /\ Studs(A) \cap Studs(B) # {}
    /\ A.y_range[1] < B.y_range[2]
    /\ B.y_range[1] < A.y_range[2]

NoInterpenetration ==
    \A i, j \in DOMAIN parts : i # j => ~Interpenetrate(parts[i], parts[j])

(* Some stud of B is the stud of A one step further in x (in z).           *)
NextInX(A, B) == \E s \in Studs(A) : <<s[1] + 1, s[2]>> \in Studs(B)
NextInZ(A, B) == \E s \in Studs(A) : <<s[1], s[2] + 1>> \in Studs(B)

----------------------------------------------------------------------------
(* C1: complementarity of check_two_parts.  For two distinct placed parts  *)
(* A and B the kinds of check_two_parts(A, B) and check_two_parts(B, A)    *)
(* are paired top/bot, bot/top, side/side or none/none; never side one way *)
(* and none the other way.  Stated for parts that do not interpenetrate.   *)
C1_Complementarity ==
    (Checked /\ NoInterpenetration) =>
        \/ rel[3][1] = "top" /\ KindBack = "bot"
        \/ rel[3][1] = "bot" /\ KindBack = "top"
        \/ rel[3][1] = "side" /\ KindBack = "side"
        \/ rel[3][1] = "none" /\ KindBack = "none"

(* C2: the kind check_two_parts returns is the first matching branch of    *)
(* the stated rule: top, else bottom, else side if                         *)
(* ymin_A < ymax_B + TOL <= ymax_A + TOL or                                *)
(* ymin_B < ymax_A + TOL <= ymax_B + TOL, else none.  Stated for parts     *)
(* that do not interpenetrate.                                             *)
C2_StatedRule ==
    (Checked /\ NoInterpenetration) =>
        LET yA == parts[rel[1]].y_range
            yB == parts[rel[2]].y_range
            stated ==
                IF yA[2] + h_stud > yB[1] /\ yA[2] <= yB[1] + TOL THEN "top"
                ELSE IF yB[2] + h_stud > yA[1] /\ yB[2] <= yA[1] + TOL
                THEN "bot"
                ELSE IF \/ (yA[1] < yB[2] + TOL /\ yB[2] + TOL <= yA[2] + TOL)
                        \/ (yB[1] < yA[2] + TOL /\ yA[2] + TOL <= yB[2] + TOL)
                THEN "side"
                ELSE "none"
        IN  rel[3][1] = stated

(* C3: side-contact completeness of make_widen_cont.  For two distinct     *)
(* parts A and B whose vertical extents overlap and that do not            *)
(* interpenetrate, if a stud of B is a stud of A plus (1, 0) the contact   *)
(* list holds [A, B, ['x1','x0']], and if a stud of B is a stud of A plus  *)
(* (0, 1) it holds [A, B, ['z1','z0']]; also when one extent lies inside   *)
(* the other.                                                              *)
C3_SideComplete ==
    (Done /\ NoInterpenetration) =>
        \A A, B \in DOMAIN parts :
            (A # B /\ VertOverlap(parts[A], parts[B])) =>
                /\ NextInX(parts[A], parts[B]) =>
                       Count(cont_list, <<A, B, <<"x1", "x0">> >>) >= 1
                /\ NextInZ(parts[A], parts[B]) =>
                       Count(cont_list, <<A, B, <<"z1", "z0">> >>) >= 1

----------------------------------------------------------------------------
(* The docstring example of make_widen_cont.                               *)

IsDoc ==
    /\ DOMAIN parts = DOMAIN DocAssembly
    /\ \A i \in DOMAIN parts : /\ parts[i].brick_id = DocAssembly[i].brick_id
                               /\ parts[i].loc = DocAssembly[i].loc

DocWiden ==
    1 :> << <<2, 1>> >> @@
    2 :> << <<1, 1>>, <<2, 1>> >> @@
    3 :> << <<1, 1>>, <<2, 1>> >> @@
    4 :> << <<1, 1>> >> @@
    5 :> <<>> @@ 6 :> <<>> @@ 7 :> <<>>

DocCont ==
    << <<1, 2, <<"x1", "x0">> >>, <<1, 5, <<"bot", "top">> >>,
       <<2, 3, <<"x1", "x0">> >>, <<2, 5, <<"bot", "top">> >>,
       <<2, 6, <<"bot", "top">> >>, <<3, 4, <<"x1", "x0">> >>,
       <<3, 6, <<"bot", "top">> >>, <<3, 7, <<"bot", "top">> >>,
       <<4, 7, <<"bot", "top">> >>, <<5, 6, <<"x1", "x0">> >>,
       <<6, 7, <<"x1", "x0">> >> >>

(* C4: stud-contact entries of make_widen_cont.  For every ordered pair    *)
(* (P, Q) of distinct parts the contact list holds exactly one entry       *)
(* [P, Q, ['bot','top']] if check_two_parts(P, Q) is 'bot' and P and Q     *)
(* share a stud grid coordinate, and none otherwise; and the docstring     *)
(* example (its parts holding the instances of make_assembly) returns the  *)
(* listed dict_widen and cont_list.                                        *)
C4_StudEntries ==
    Done =>
        /\ \A P, Q \in DOMAIN parts :
               P # Q =>
                   Count(cont_list, <<P, Q, <<"bot", "top">> >>) =
                       IF /\ check_two_parts(parts[P], parts[Q])[1] = "bot"
                          /\ Studs(parts[P]) \cap Studs(parts[Q]) # {}
                       THEN 1 ELSE 0
        /\ IsDoc => (dict_widen = DocWiden /\ cont_list = DocCont)

(* C4 witness: make_widen_cont has returned for the docstring example and  *)
(* its contact list holds the stud contact of part 2 on part 6.            *)
C4_Witness ==
    Done /\ IsDoc /\ Count(cont_list, <<2, 6, <<"bot", "top">> >>) = 1

(* The side entries of the unordered pair {A, B} with the given labels.    *)
SideCount(A, B, lab) ==
    Count(cont_list, <<A, B, lab>>) + Count(cont_list, <<B, A, lab>>)

(* C5 as stated: for every placement list and every unordered pair of      *)
(* parts the contact list holds at most one ['x1','x0'] and at most one    *)
(* ['z1','z0'] entry over both orders.                                     *)
C5_Original ==
    Done =>
        \A A, B \in DOMAIN parts :
            A # B => /\ SideCount(A, B, <<"x1", "x0">>) <= 1
                     /\ SideCount(A, B, <<"z1", "z0">>) <= 1

(* C5 amended: the same for every placement list in which no two parts     *)
(* occupy the same stud grid position at overlapping heights.              *)
C5_SideOnce ==
    (Done /\ NoInterpenetration) =>
        \A A, B \in DOMAIN parts :
            A # B => /\ SideCount(A, B, <<"x1", "x0">>) <= 1
                     /\ SideCount(A, B, <<"z1", "z0">>) <= 1

(* C5 witness: two parts that do not interpenetrate are beside each other  *)
(* along two stud pairs; both directions are classified side and the       *)
(* interface is declared once.                                             *)
C5_Witness ==
    /\ Done /\ NoInterpenetration
    /\ Len(check_two_parts(parts[1], parts[2])[3]) = 2
    /\ check_two_parts(parts[2], parts[1])[1] = "side"
    /\ SideCount(1, 2, <<"x1", "x0">>) = 1

----------------------------------------------------------------------------
(* The footprint of a part in its own coordinates, (ix, iz) with ix outer, *)
(* and the positions of it whose absolute stud is also a stud of B.        *)
Footprint(A) ==
    LET nz == bricks[A.brick_id].nz
    IN  [k \in DOMAIN A.stud_list |->
            <<((k - 1) \div nz) + 1, ((k - 1) % nz) + 1>>]

Coinciding(A, B) ==
    LET idx == [k \in DOMAIN A.stud_list |-> k]
        on_B(k) == A.stud_list[k] \in Studs(B)
        sel == SelectSeq(idx, on_B)
    IN  [n \in DOMAIN sel |-> Footprint(A)[sel[n]]]

Stacked1x1 ==
    /\ DOMAIN parts = {1, 2}
    /\ \A i \in {1, 2} : /\ bricks[parts[i].brick_id].type = "regular"
                         /\ bricks[parts[i].brick_id].nx = 1
                         /\ bricks[parts[i].brick_id].nz = 1
    /\ parts[2].loc[1] = parts[1].loc[1]
    /\ parts[2].loc[3] = parts[1].loc[3]
    /\ parts[2].loc[2] = parts[1].loc[2] + h

(* C7 as stated: for the stack of two 1x1 bricks check_two_parts(2, 1) is  *)
(* bottom with grid overlap [[0,0]] and stud contact, WidenMap[2] is       *)
(* [[0,0]], WidenMap[1] is empty and the contact list is exactly one       *)
(* ['bot','top'] entry for the parts 1 and 2.                              *)
C7_Original ==
    (Done /\ Stacked1x1) =>
        /\ check_two_parts(parts[2], parts[1]) =
               <<"bot", << <<0, 0>> >>, <<>>, 1>>
        /\ dict_widen[2] = << <<0, 0>> >>
        /\ dict_widen[1] = <<>>
        /\ Len(cont_list) = 1
        /\ cont_list[1] \in {<<1, 2, <<"bot", "top">> >>,
                             <<2, 1, <<"bot", "top">> >>}

(* C7 amended: the grid overlap and WidenMap[2] are [[1,1]] (stud          *)
(* coordinates of a part count from 1), and the one contact entry is       *)
(* [2, 1, ['bot','top']], the upper part first.                            *)
C7_Stack ==
    (Done /\ Stacked1x1) =>
        /\ check_two_parts(parts[2], parts[1]) =
               <<"bot", << <<1, 1>> >>, <<>>, 1>>
        /\ dict_widen[2] = << <<1, 1>> >>
        /\ dict_widen[1] = <<>>
        /\ cont_list = << <<2, 1, <<"bot", "top">> >> >>

(* C7 witness: make_widen_cont has returned for the stack.                 *)
C7_Witness == Done /\ Stacked1x1 /\ Len(cont_list) = 1

(* The pairs of studs (s_A, s_B) with s_B - s_A = d.                       *)
StudPairsAt(A, B, d) ==
    {p \in Studs(A) \X Studs(B) :
        p[2][1] - p[1][1] = d[1] /\ p[2][2] - p[1][2] = d[2]}

(* Two 1x1 regular bricks on the same level, part 2 one stud further in x. *)
Beside1x1 ==
    /\ DOMAIN parts = {1, 2}
    /\ \A i \in {1, 2} : /\ bricks[parts[i].brick_id].type = "regular"
                         /\ bricks[parts[i].brick_id].nx = 1
                         /\ bricks[parts[i].brick_id].nz = 1
    /\ parts[2].loc[1] = parts[1].loc[1] + b
    /\ parts[2].loc[2] = parts[1].loc[2]
    /\ parts[2].loc[3] = parts[1].loc[3]

(* C8: side surface pairing in check_two_parts(A, B) of kind side.  One    *)
(* ['x1','x0'] is emitted per stud pair with s_B - s_A = (1, 0) and one    *)
(* ['z1','z0'] per stud pair with s_B - s_A = (0, 1), and nothing else;    *)
(* for two same-level 1x1 bricks one stud apart in x the call with the     *)
(* lower-x part first returns side with [['x1','x0']] and the reversed     *)
(* call returns side with an empty list.                                   *)
C8_SidePairing ==
    Checked =>
        LET A == parts[rel[1]]
            B == parts[rel[2]]
            side_list == rel[3][3]
        IN  /\ rel[3][1] = "side" =>
                /\ Range(side_list) \subseteq {<<"x1", "x0">>, <<"z1", "z0">>}
                /\ Count(side_list, <<"x1", "x0">>) =
                       Cardinality(StudPairsAt(A, B, <<1, 0>>))
                /\ Count(side_list, <<"z1", "z0">>) =
                       Cardinality(StudPairsAt(A, B, <<0, 1>>))
            /\ (Beside1x1 /\ rel[1] = 1) =>
                   rel[3] = <<"side", <<>>, << <<"x1", "x0">> >>, 0>>
            /\ (Beside1x1 /\ rel[1] = 2) => rel[3] = <<"side", <<>>, <<>>, 0>>

(* C8 witness: the reversed call on the two bricks beside each other.      *)
C8_Witness ==
    Checked /\ Beside1x1 /\ rel[1] = 2 /\ rel[3][1] = "side"

----------------------------------------------------------------------------
(* The place of a part id in the iteration order of the parts mapping.     *)
Pos(i) == CHOOSE n \in DOMAIN order : order[n] = i

IsStud(e) == e[3] = <<"bot", "top">>

Ascending == [k \in 1..Cardinality(DOMAIN parts) |-> k]
AscendingResult == make_widen_cont(parts, Ascending)

----------------------------------------------------------------------------
(* check_two_parts has returned for a part checked against itself.         *)
CheckedSelf == rel # NoResult /\ rel[1] = rel[2]

(* C12: self-exclusion.  make_widen_cont never hands check_two_parts the   *)
(* same part twice: k_part is not among the keys of its dic_temp and no    *)
(* contact entry names one part twice; and check_two_parts(A, A), when     *)
(* called, returns 'none' with an empty widen list, an empty side list and *)
(* no stud contact: the returned tuple ends with the empty side list and   *)
(* holds no if_stud_contact element.                                       *)
C12_SelfExclusion ==
    /\ \A k_part \in DOMAIN parts :
           k_part \notin Range(dic_keys(order, k_part))
    /\ Done => \A n \in DOMAIN cont_list : cont_list[n][1] # cont_list[n][2]
    /\ CheckedSelf =>
           /\ rel[3][1] = "none"
           /\ rel[3][2] = <<>>
           /\ rel[3][3] = <<>>
           /\ Len(rel[3]) = 3

(* C12 witness: a part with neighbouring studs of its own (2 x 1) was      *)
(* checked against itself and make_widen_cont has returned contacts.       *)
C12_Witness ==
    /\ CheckedSelf
    /\ Cardinality(Studs(parts[rel[1]])) >= 2
    /\ Done
    /\ cont_list # <<>>

----------------------------------------------------------------------------
IsBasePlate(i_brick) == bricks[i_brick].type = "base-plate"

(* C11: for every part whose brick is a base-plate the widen list          *)
(* dict_widen[part] that make_widen_cont returns is empty, wherever the    *)
(* other parts are placed, and the move_nodes that make_assembly stores    *)
(* for a base-plate brick is empty.                                        *)
C11_BasePlate ==
    /\ Done => \A k \in DOMAIN parts :
                   IsBasePlate(parts[k].brick_id) => dict_widen[k] = <<>>
    /\ has_instance(parts) =>
           \A i \in DOMAIN brick_dict :
               IsBasePlate(i) => brick_dict[i].move_nodes = <<>>

----------------------------------------------------------------------------
(* The nearest integer to a / d, halves away from zero.                    *)
round_div(a, d) ==
    IF a >= 0 THEN (2 * a + d) \div (2 * d) ELSE -((2 * (-a) + d) \div (2 * d))

(* make_parts has returned or raised.                                      *)
MadeParts == err # "" \/ \E i \in DOMAIN parts : parts[i].y_range # <<>>

(* C13: for every placement with origin (x, y, z) and footprint nx x nz    *)
(* the stud coordinates make_parts stores are the nx * nz pairwise         *)
(* distinct pairs (ix + round(x/b), iz + round(z/b)), 1 <= ix <= nx,       *)
(* 1 <= iz <= nz, also for negative origins and origins off the grid.      *)
C13_RoundedGrid ==
    \A i \in DOMAIN parts :
        parts[i].stud_list # <<>> =>
            LET brick == catalog[parts[i].brick_id]
                loc == parts[i].loc
            IN  /\ Studs(parts[i]) =
                       {<<ix + round_div(loc[1], b), iz + round_div(loc[3], b)>> :
                           ix \in 1..brick.nx, iz \in 1..brick.nz}
                /\ Len(parts[i].stud_list) = brick.nx * brick.nz
                /\ Cardinality(Studs(parts[i])) = brick.nx * brick.nz

(* The configuration errors of a placement.                                *)
BadConfig(part) ==
    \/ part.brick_id \notin DOMAIN catalog
    \/ catalog[part.brick_id].nx < 1
    \/ catalog[part.brick_id].nz < 1
    \/ catalog[part.brick_id].type
           \notin {"regular", "plate", "tile", "base-plate"}

(* C14: make_parts fails with an error, and stores no stud list and no     *)
(* vertical extent for the placement, when its brick_id is not in the      *)
(* catalog, when nx or nz is not positive, or when the type is none of     *)
(* regular, plate, tile and base-plate.                                    *)
C14_ConfigErrors ==
    /\ \A i \in DOMAIN parts :
           BadConfig(parts[i]) =>
               parts[i].stud_list = <<>> /\ parts[i].y_range = <<>>
    /\ (MadeParts /\ \E i \in DOMAIN parts : BadConfig(parts[i])) => err # ""

----------------------------------------------------------------------------
(* What C15 asks of the mid positions of one axis: none for one position,  *)
(* and for n >= 2 positions n - 1 of them, the k-th halfway between the    *)
(* positions k and k + 1.                                                  *)
MidOk(arr, mid) ==
    IF Len(arr) = 1 THEN mid = None
    ELSE /\ mid[1] = "array"
         /\ Len(mid[2]) = Len(arr) - 1
         /\ \A k \in 1..(Len(arr) - 1) : 2 * mid[2][k] = arr[k] + arr[k + 1]

MidReturned == frame.fn = "make_middle_pos" /\ frame.out # NoResult

(* C15: make_middle_pos on evenly spaced arrays returns, for an axis with  *)
(* n >= 2 positions, the n - 1 midpoints of neighbouring positions, and    *)
(* None for an axis with a single position.                                *)
C15_MiddlePos ==
    MidReturned =>
        /\ MidOk(frame.x_arr, frame.out[1])
        /\ MidOk(frame.z_arr, frame.out[2])

(* C15 witness: a 1 x 4 footprint, 3 midpoints in the axis with 4          *)
(* positions and None in the other.                                        *)
C15_Witness ==
    /\ MidReturned
    /\ frame.x_arr = linspace(0, b, 4)
    /\ frame.z_arr = linspace(0, b, 1)
    /\ frame.out = <<array(<<b \div 2, b + b \div 2, 2 * b + b \div 2>>), None>>

----------------------------------------------------------------------------
(* The make_u_nodes call of frame: its brick, nodes, stud centres, and     *)
(* whether it has returned or raised.                                      *)
UCall == frame.fn = "make_u_nodes"
UNodes == brick_dict[frame.i_brick].nodes
UCentres ==
    Range(stud_centres(bricks[frame.i_brick].nx, bricks[frame.i_brick].nz, b))
UReturned == UCall /\ frame.out # NoResult
URaised == UCall /\ frame.error # ""
URecords == frame.out[2]
USets == frame.sets

(* The squared planar distance of a node from a stud centre, and the       *)
(* selection C16 states: strictly inside the stud radius and not above     *)
(* h_stud + mesh_size/2.                                                   *)
Dist2(row, c) == (row[2] - c[1]) * (row[2] - c[1]) + (row[3] - c[2]) * (row[3] - c[2])
Overlaps(row, c, r) ==
    /\ Dist2(row, c) < r * r
    /\ 2 * row[4] <= 2 * h_stud + mesh_size
InCylinder(row, c) == Overlaps(row, c, frame.r_stud)

(* The records of the call for one node and one stud centre.               *)
RecordsOf(row, c) ==
    {k \in DOMAIN URecords :
        /\ URecords[k][1] = row[1]
        /\ URecords[k][3] = <<row[3] - c[2], row[2] - c[1]>>}

(* C16: for each stud centre and each node of the set a record is emitted  *)
(* iff the node lies at a planar distance d < r_stud from the centre and   *)
(* not above h_stud + mesh_size/2; the record carries the node's label and *)
(* the radial correction r_stud - d (d rounded down to 0.001 mm), which is *)
(* positive; no other record is emitted.                                   *)
C16_Selection ==
    UReturned =>
        /\ \A row \in Range(UNodes) : \A c \in UCentres :
               /\ Cardinality(RecordsOf(row, c)) =
                      IF InCylinder(row, c) THEN 1 ELSE 0
               /\ \A k \in RecordsOf(row, c) :
                      LET d == frame.r_stud - URecords[k][2]
                      IN  /\ URecords[k][2] > 0
                          /\ d * d <= Dist2(row, c)
                          /\ Dist2(row, c) < (d + 1) * (d + 1)
        /\ \A k \in DOMAIN URecords :
               \E row \in Range(UNodes) : \E c \in UCentres :
                   k \in RecordsOf(row, c)

(* C16 witness: the call returned a record for the node at the height      *)
(* h_stud + mesh_size/2 and none for the node on the cylinder beside it.   *)
C16_Witness ==
    /\ UReturned
    /\ UNodes = <<node_at(3), node_at(5)>>
    /\ Len(URecords) = 1
    /\ URecords[1][1] = 5

(* C17: when no node of the set lies inside a stud cylinder, make_u_nodes  *)
(* completes without raising, returns no record and creates no node set;   *)
(* and make_widen_cont completes for an assembly in which every relation   *)
(* is 'none', with empty widen lists and an empty contact list.            *)
C17_EmptyResult ==
    /\ (UCall /\ (UReturned \/ URaised)
          /\ \A row \in Range(UNodes) : \A c \in UCentres : ~InCylinder(row, c))
       => /\ err = ""
          /\ UReturned
          /\ URecords = <<>>
          /\ USets = <<>>
    /\ (Done /\ \A i, j \in DOMAIN parts :
                   i # j => check_two_parts(parts[i], parts[j])[1] = "none")
       => /\ \A k \in DOMAIN parts : dict_widen[k] = <<>>
          /\ cont_list = <<>>

(* C18: with the grid pitch b at least 2 * r_stud no node label occurs     *)
(* twice in the records make_u_nodes returns, and every node set           *)
(* 'x-n<label>' is created once.                                           *)
C18_OneStud ==
    (UReturned /\ b >= 2 * frame.r_stud) =>
        /\ \A k, l \in DOMAIN URecords : URecords[k][1] = URecords[l][1] => k = l
        /\ \A k, l \in DOMAIN USets : USets[k] = USets[l] => k = l
        /\ Range(USets) =
               {set_name(URecords[k][1]) : k \in DOMAIN URecords}

(* C18 witness: with r_stud = b/2 the call returned records for a node     *)
(* just before the middle between two studs and for a node inside the      *)
(* second stud.                                                            *)
C18_Witness ==
    /\ UReturned
    /\ frame.r_stud = b \div 2
    /\ bricks[frame.i_brick].nx = 2
    /\ UNodes = <<node_at(8), node_at(9)>>
    /\ Len(URecords) = 2

----------------------------------------------------------------------------
(* make_model_ini has created the clamping steps and boundary conditions.  *)
IniClamped == "free" \in Range(model.steps)

(* The widening displacements of the model, and those of one part.         *)
U0s == {k \in DOMAIN model.bcs : model.bcs[k].name[1] = "u0-inst"}
U0Labels(P) == {model.bcs[k].name[3] : k \in {l \in U0s : model.bcs[l].name[2] = P}}

(* The brick of a part, its stud centres and the nodes of its mesh.        *)
BrickOf(P) == bricks[parts[P].brick_id]
CentresOf(P) == Range(stud_centres(BrickOf(P).nx, BrickOf(P).nz, b))
NodesOf(P) == Range(brick_dict[parts[P].brick_id].nodes)

(* A boundary condition is active in a step from the step that creates it  *)
(* up to the step before the one that deactivates it.                      *)
StepIndex(s) == CHOOSE k \in DOMAIN model.steps : model.steps[k] = s
Active(bc, s) ==
    /\ StepIndex(bc.createStepName) <= StepIndex(s)
    /\ bc.deactivate # "" => StepIndex(s) < StepIndex(bc.deactivate)

(* C19 as stated: a widening displacement is prescribed on a node of a     *)
(* part P only if the node overlaps the stud cylinder at a cavity position *)
(* listed in dict_widen[P]; a part with an empty widen list gets none.     *)
C19_Original ==
    IniClamped =>
        \A P \in DOMAIN parts : \A n \in U0Labels(P) :
            \E row \in NodesOf(P) : \E c \in CentresOf(P) :
                /\ row[1] = n
                /\ Overlaps(row, c, r_stud)
                /\ cavity_of(c, BrickOf(P).nz, b) \in Range(dict_widen[P])

(* C19: a part P gets widening displacements iff dict_widen[P] is not      *)
(* empty, and then on every node of its mesh that overlaps the stud        *)
(* cylinder at any cavity position of its brick, listed in dict_widen[P]   *)
(* or not (a base-plate has no such records and gets none); a part with an *)
(* empty widen list gets none at all.                                      *)
C19_WidenParts ==
    IniClamped =>
        \A P \in DOMAIN parts :
            U0Labels(P) =
                IF dict_widen[P] = <<>> \/ IsBasePlate(parts[P].brick_id) THEN {}
                ELSE {row[1] : row \in
                         {r \in NodesOf(P) :
                             \E c \in CentresOf(P) : Overlaps(r, c, r_stud)}}

(* C19 witness: a 2 x 1 brick sits with its first cavity on a 1 x 1 brick; *)
(* its widen list holds that cavity alone and the node on the wall of its  *)
(* second cavity is displaced too.                                         *)
C19_Witness ==
    /\ IniClamped
    /\ parts[1].brick_id = 2
    /\ parts[2].brick_id = 1
    /\ dict_widen[2] = << <<1, 1>> >>
    /\ dict_widen[1] = <<>>
    /\ {1, 2} \subseteq U0Labels(2)
    /\ U0Labels(1) = {}

(* C20: every boundary condition 'u0-inst<i>n<label>' is created in the    *)
(* step 'widen' on the node set 'x-n<label>' of a record of move_nodes of  *)
(* the brick of part i, on its bottom instance, and deactivated in         *)
(* 'contact': of the steps of the model it is active in 'widen' only.      *)
C20_WidenStepOnly ==
    \A k \in U0s :
        LET bc == model.bcs[k]
            P == bc.name[2]
            bd == brick_dict[parts[P].brick_id]
        IN  /\ bc.createStepName = "widen"
            /\ bc.deactivate = "contact"
            /\ \E m \in DOMAIN bd.move_nodes :
                   /\ bd.move_nodes[m][1] = bc.name[3]
                   /\ bc.region = <<parts[P].instance[1], set_name(bd.move_nodes[m][1])>>
                   /\ set_name(bd.move_nodes[m][1]) \in Range(bd.sets)
            /\ \A s \in Range(model.steps) : Active(bc, s) <=> s = "widen"

(* C20 witness: make_model_ini returned for an implicit load, the model    *)
(* has the steps Initial, widen, contact, free and load, and a widening    *)
(* displacement exists.                                                    *)
C20_Witness ==
    /\ frame.out = None
    /\ model.steps = <<"Initial", "widen", "contact", "free", "load">>
    /\ U0s # {}

----------------------------------------------------------------------------
(* make_model_ini has returned.                                            *)
IniReturned == frame.out = None

(* The boundary condition 'fix-top-i<P>' of a part.                        *)
FixTops(P) == {k \in DOMAIN model.bcs : model.bcs[k].name = <<"fix-top-i", P, 0>>}

(* An interaction is active from the step that creates it.                 *)
IntActive(int, s) == StepIndex(int.createStepName) <= StepIndex(s)

(* C21: the steps of the model are Initial, widen, contact, free in this   *)
(* order, followed by load after an implicit run; every interaction of     *)
(* the model is created in 'contact' and is not active in 'widen', and     *)
(* every entry of cont_pairs has one; every part has one 'fix-top-i<i>'    *)
(* that is active in Initial, widen and contact and in no later step.      *)
C21_ClampingProtocol ==
    /\ model.steps \in {<<"Initial">>,
                        <<"Initial", "widen", "contact", "free">>,
                        <<"Initial", "widen", "contact", "free", "load">>}
    /\ IniReturned =>
           model.steps = IF frame.is_expl = 0
                         THEN <<"Initial", "widen", "contact", "free", "load">>
                         ELSE <<"Initial", "widen", "contact", "free">>
    /\ \A n \in DOMAIN model.ints :
           /\ model.ints[n].createStepName = "contact"
           /\ ~IntActive(model.ints[n], "widen")
           /\ IntActive(model.ints[n], "contact")
    /\ IniReturned =>
           \A n \in DOMAIN cont_list :
               \E m \in DOMAIN model.ints :
                   /\ model.ints[m].name[2] = cont_list[n][1]
                   /\ model.ints[m].name[3] = cont_list[n][2]
    /\ IniClamped =>
           \A P \in DOMAIN parts :
               /\ Cardinality(FixTops(P)) = 1
               /\ \A k \in FixTops(P) : \A s \in Range(model.steps) :
                      Active(model.bcs[k], s) <=> s \in {"Initial", "widen", "contact"}

(* C21 witness: an implicit run has returned with a widening displacement  *)
(* and the contact of a cavity with a stud in the model.                   *)
C21_Witness ==
    /\ IniReturned
    /\ frame.is_expl = 0
    /\ U0s # {}
    /\ \E n \in DOMAIN model.ints : model.ints[n].name[1] = "cont-bt-"

----------------------------------------------------------------------------
(* A step in which make_widen_cont returns.                                *)
WidenContReturns == calls' # calls

(* C22 as stated: make_widen_cont leaves assembly['bricks'] and            *)
(* assembly['parts'] as they were before the call.                         *)
C22_Original ==
    [][WidenContReturns => parts' = parts /\ brick_dict' = brick_dict]_vars

(* C22: make_widen_cont writes 'stud_list' and 'y_range' into every        *)
(* placement record of assembly['parts']; the keys and their order, and    *)
(* 'brick_id', 'loc' and 'instance' of every record, stay as they were,    *)
(* and so does assembly['bricks'].                                         *)
C22_WritesLists ==
    [][WidenContReturns =>
          /\ DOMAIN parts' = DOMAIN parts
          /\ order' = order
          /\ brick_dict' = brick_dict
          /\ \A i \in DOMAIN parts :
                 /\ parts'[i].brick_id = parts[i].brick_id
                 /\ parts'[i].loc = parts[i].loc
                 /\ parts'[i].instance = parts[i].instance
                 /\ parts'[i].stud_list # <<>>
                 /\ parts'[i].y_range # <<>>
                 /\ parts[i].stud_list = <<>> => parts'[i] # parts[i]]_vars

(* C22 witness: make_widen_cont has returned and every placement record    *)
(* holds a stud list and a vertical extent.                                *)
C22_Witness ==
    /\ Done
    /\ \A i \in DOMAIN parts :
           parts[i].stud_list # <<>> /\ parts[i].y_range # <<>>

----------------------------------------------------------------------------
(* remove_files has returned.                                              *)
FilesReturned == frame.fn = "remove_files" /\ frame.out = None

(* A file of dir0 whose name ends with one of the strings of the call.     *)
Listed(f) ==
    /\ f[1] = frame.dir0
    /\ \E end_str \in type0_list \cup frame.type_list \cup number_list :
           endswith(f[2], end_str)

(* C24: whatever the working directory is, remove_files(dir0) removes the  *)
(* files of dir0 whose names end with a predefined or given string, and    *)
(* no other file: a file on disk before the call is on disk after it iff   *)
(* it is not such a file.                                                  *)
C24_RemovesInDir0 ==
    FilesReturned =>
        /\ os.files \subseteq frame.before.files
        /\ \A f \in frame.before.files : f \in os.files <=> ~Listed(f)

----------------------------------------------------------------------------
(* make_bricks has returned; the bricks of a row of the wall.              *)
WallReturned == frame.fn = "make_bricks" /\ frame.out # NoResult
WallBricks(k) == frame.out[2][k]

(* The places of the 0 entries of a row in ascending order, framed by 0    *)
(* and len(row) + 1: the ends of the bricks.                               *)
Zeros(row) == {p \in DOMAIN row : row[p] = 0}
Ends(row) == Zeros(row) \cup {0, Len(row) + 1}
RECURSIVE Sum(_)
Sum(seq) == IF seq = <<>> THEN 0 ELSE Head(seq) + Sum(Tail(seq))

(* C25: for every row of 0/1 flags the brick lengths are all >= 1, their   *)
(* number is the number of 0 entries + 1, their sum is len(row) + 1, and   *)
(* the j-th brick reaches from the (j-1)-th to the j-th 0 entry (the ends  *)
(* of the row counting as 0 entries), so a maximal run of k entries 1      *)
(* gives one brick of length k + 1, in the order of the row.               *)
C25_WallBricks ==
    WallReturned =>
        \A k \in DOMAIN frame.wall :
            LET row == frame.wall[k]
                out == WallBricks(k)
            IN  /\ \A j \in DOMAIN out : out[j] >= 1
                /\ Len(out) = Cardinality(Zeros(row)) + 1
                /\ Sum(out) = Len(row) + 1
                /\ \A j \in DOMAIN out :
                       LET hi == Sum(SubSeq(out, 1, j))
                       IN  /\ hi \in Ends(row)
                           /\ \A p \in (hi - out[j] + 1)..(hi - 1) : row[p] = 1

(* C25 witness: the row (0,0,1,1,1) has given the bricks 1, 1, 4.          *)
C25_Witness ==
    /\ WallReturned
    /\ frame.wall = <<DocRow>>
    /\ WallBricks(1) = <<1, 1, 4>>

----------------------------------------------------------------------------
(* The entries of the contact list for the ordered pair (P, Q), and the    *)
(* number of interactions make_contact creates for one entry.              *)
PairEntries(P, Q) ==
    {n \in DOMAIN cont_list : cont_list[n][1] = P /\ cont_list[n][2] = Q}
TwoParts(P) == parts[P].instance[1] # parts[P].instance[2]
Created(entry) ==
    IF entry[3][1] = "bot" THEN 1
    ELSE 1 + (IF TwoParts(entry[1]) THEN 1 ELSE 0)
           + (IF TwoParts(entry[1]) /\ TwoParts(entry[2]) THEN 1 ELSE 0)
           + (IF TwoParts(entry[2]) THEN 1 ELSE 0)
CreatedAll == Sum([n \in DOMAIN cont_list |-> Created(cont_list[n])])

(* C26: the contact list holds at most one entry per ordered pair (P, Q):  *)
(* a side relation gives the first label pair of its surface-pair list     *)
(* and no other, and no pair has a side entry and a ['bot','top'] entry;   *)
(* make_contact then creates every interaction under a name of its own.    *)
C26_OneEntryPerPair ==
    Done =>
        /\ \A P, Q \in DOMAIN parts :
               /\ Cardinality(PairEntries(P, Q)) <= 1
               /\ \A n \in PairEntries(P, Q) :
                      LET out == check_two_parts(parts[P], parts[Q])
                      IN  cont_list[n][3] # <<"bot", "top">> =>
                              /\ out[3] # <<>>
                              /\ cont_list[n][3] = out[3][1]
        /\ Len(make_contact(parts, cont_list, 0, <<>>)) = CreatedAll

(* C26 witness: a side relation along two stud pairs has given one entry   *)
(* and four interactions between two bricks of two parts each.             *)
C26_Witness ==
    /\ Done
    /\ Len(check_two_parts(parts[1], parts[2])[3]) = 2
    /\ Cardinality(PairEntries(1, 2)) = 1
    /\ Len(make_contact(parts, cont_list, 0, <<>>)) = 4
(* make_widen_cont has run on a mapping make_assembly has not touched:     *)
(* make_parts has written the stud lists, and no part holds 'instance'.    *)
PlainCall == has_stud_list(parts) /\ ~has_instance(parts)

(* The call on a plain description failed and returned nothing.            *)
NoWidenCont ==
    /\ err = "KeyError"
    /\ ~Done
    /\ dict_widen = NoResult
    /\ cont_list = NoResult

(* C27 as stated: make_widen_cont returns only on a mapping that holds the *)
(* instances make_assembly writes, and on a plain description it fails     *)
(* with an error and returns neither dict_widen nor cont_list.             *)
C27_Original ==
    /\ Done => has_instance(parts)
    /\ PlainCall => NoWidenCont

(* C27: for an assembly of two or more parts, make_widen_cont returns only *)
(* on a mapping that holds the instances make_assembly writes, and on a    *)
(* plain description it fails with a KeyError and returns neither          *)
(* dict_widen nor cont_list.                                               *)
C27_NeedsAssembly ==
    Cardinality(DOMAIN parts) >= 2 =>
        /\ Done => has_instance(parts)
        /\ PlainCall => NoWidenCont

(* The assembly of the docstring, called as the docstring shows it, has    *)
(* failed.                                                                 *)
C27_Witness ==
    /\ Cardinality(DOMAIN parts) = 7
    /\ PlainCall
    /\ NoWidenCont
(* The STUD sets of a brick have been created.                             *)
StudsReturned == frame.fn = "make_abq_brick" /\ frame.out # NoResult

(* The stud the set of a name consists of.                                 *)
StudSetsOf(name) == {e[2] : e \in {x \in Range(frame.out[2]) : x[1] = name}}

(* C30: after make_abq_brick every stud (ix, iz) of a brick that is no     *)
(* tile has a set 'STUD-<ix><iz>' of its own, which holds that stud and no *)
(* other: the names of two studs differ.                                   *)
C30_StudNamesInjective ==
    (StudsReturned /\ frame.b_type # "tile") =>
        \A ix \in 1..frame.nx, iz \in 1..frame.nz :
            StudSetsOf("STUD-" \o str(ix) \o str(iz)) = {<<ix, iz>>}
(* color_bricks has returned or raised.                                    *)
ColorDone ==
    frame.fn = "color_bricks" /\ (frame.out # NoResult \/ frame.error # "")

(* C29: color_bricks gets through for every set of part ids, and looks up  *)
(* no part id that is absent from the assembly.                            *)
C29_AnyPartIds ==
    ColorDone =>
        /\ frame.error = ""
        /\ Range(frame.lookups) \subseteq frame.ids
(* A make_model call has ended: it has returned, or raised part-way.       *)
ModelEnded == frame.fn = "make_model" /\ frame.pc = "idle" /\ frame.runs >= 1
ModelReturned == ModelEnded /\ frame.error = ""
ModelRaised == ModelEnded /\ frame.error # ""

(* C23: after make_model returns, for an implicit or explicit run and for  *)
(* is_new 0 or 1, the caller's assembly0 equals its value at call time.    *)
C23_Assembly0Unchanged ==
    ModelReturned => assembly0_of(frame) = frame.at_call

(* An explicit run with is_new = 1 has returned: make_assembly has written *)
(* the instances and move_nodes into the working assembly, and assembly0   *)
(* holds none.                                                             *)
C23_Witness ==
    /\ ModelReturned
    /\ frame.is_new = 1
    /\ frame.is_expl = 1
    /\ has_instance(parts)
    /\ has_stud_list(parts)
    /\ \E i \in DOMAIN brick_dict : brick_dict[i].sets # <<>>
    /\ ~has_instance(assembly0_of(frame).parts)

(* C28: after any sequence of make_model calls, each of which has returned *)
(* or raised part-way, the working directory is the one before the first   *)
(* call.                                                                   *)
C28_CwdRestored == ModelEnded => os.cwd = frame.cwd0

====
